---- MODULE Spec2Model ----
(***************************************************************************)
(* A model of websurfer-mcp: the URL validator (url_validator.py) and the  *)
(* rate-limited, size-bounded fetch pipeline (text_extractor.py).          *)
(*                                                                         *)
(* Python strings are sequences of one-character strings, so that strip,   *)
(* lower, startswith, "in" and the f-string messages are computed and not  *)
(* assumed.  Optional[T] is None == <<>> or Some(x) == <<x>>.              *)
(***************************************************************************)
EXTENDS Integers, Sequences, FiniteSets, TLC

None == <<>>
Some(x) == <<x>>

(***************************************************************************)
(* Python str operations                                                   *)
(***************************************************************************)
UpperChars == <<"A","B","C","D","E","F","G","H","I","J","K","L","M","N","O","P","Q","R","S","T","U","V","W","X","Y","Z">>
LowerChars == <<"a","b","c","d","e","f","g","h","i","j","k","l","m","n","o","p","q","r","s","t","u","v","w","x","y","z">>
DigitChars == <<"0","1","2","3","4","5","6","7","8","9">>
HexChars == <<"0","1","2","3","4","5","6","7","8","9","a","b","c","d","e","f">>

Range(f) == {f[i] : i \in DOMAIN f}
MinOf(S) == CHOOSE x \in S : \A y \in S : x <= y
MaxOf(S) == CHOOSE x \in S : \A y \in S : x >= y
IndexIn(c, chars) == CHOOSE i \in DOMAIN chars : chars[i] = c

\* str.lower(), on ASCII
LowerChar(c) == IF c \in Range(UpperChars) THEN LowerChars[IndexIn(c, UpperChars)] ELSE c
Lower(s) == [i \in DOMAIN s |-> LowerChar(s[i])]

WhitespaceChars == {" ", "\t", "\n", "\r"}

\* str.strip()
Strip(s) ==
    LET keep == {i \in DOMAIN s : s[i] \notin WhitespaceChars}
    IN  IF keep = {} THEN <<>> ELSE SubSeq(s, MinOf(keep), MaxOf(keep))

\* s.startswith(pre), s.endswith(suf)
StartsWith(s, pre) == Len(s) >= Len(pre) /\ SubSeq(s, 1, Len(pre)) = pre
EndsWith(s, suf) == Len(s) >= Len(suf) /\ SubSeq(s, Len(s) - Len(suf) + 1, Len(s)) = suf

\* s.find(sub) + 1: the 1-based position of the first occurrence, 0 if none
Find(s, sub) ==
    LET hits == {i \in 1..(Len(s) - Len(sub) + 1) : SubSeq(s, i, i + Len(sub) - 1) = sub}
    IN  IF hits = {} THEN 0 ELSE MinOf(hits)
\* s.rfind(sub) + 1
RFind(s, sub) ==
    LET hits == {i \in 1..(Len(s) - Len(sub) + 1) : SubSeq(s, i, i + Len(sub) - 1) = sub}
    IN  IF hits = {} THEN 0 ELSE MaxOf(hits)
\* sub in s
Contains(s, sub) == Find(s, sub) # 0

\* s.partition(sep) as <<head, found, tail>>, sep one character
Partition(s, sep) ==
    LET i == Find(s, <<sep>>)
    IN  IF i = 0 THEN <<s, FALSE, <<>>>>
        ELSE <<SubSeq(s, 1, i - 1), TRUE, SubSeq(s, i + 1, Len(s))>>
RPartition(s, sep) ==
    LET i == RFind(s, <<sep>>)
    IN  IF i = 0 THEN <<<<>>, FALSE, s>>
        ELSE <<SubSeq(s, 1, i - 1), TRUE, SubSeq(s, i + 1, Len(s))>>

\* s.split(sep), sep one character
RECURSIVE Split(_, _)
Split(s, sep) ==
    LET p == Partition(s, sep)
    IN  IF p[2] THEN <<p[1]>> \o Split(p[3], sep) ELSE <<s>>

\* int(s) of a string of decimal digits
RECURSIVE DecValue(_)
DecValue(s) ==
    IF s = <<>> THEN 0
    ELSE 10 * DecValue(SubSeq(s, 1, Len(s) - 1)) + (IndexIn(s[Len(s)], DigitChars) - 1)
\* int(s, 16) of a string of lower-case hex digits
RECURSIVE HexValue(_)
HexValue(s) ==
    IF s = <<>> THEN 0
    ELSE 16 * HexValue(SubSeq(s, 1, Len(s) - 1)) + (IndexIn(s[Len(s)], HexChars) - 1)
\* str(n), n >= 0
RECURSIVE DecString(_)
DecString(n) ==
    IF n < 10 THEN <<DigitChars[n + 1]>>
    ELSE DecString(n \div 10) \o <<DigitChars[(n % 10) + 1]>>

(***************************************************************************)
(* ipaddress.ip_address and the address classes (CPython 3.11 ipaddress)   *)
(***************************************************************************)
AllIn(s, chars) == \A i \in DOMAIN s : s[i] \in Range(chars)

\* IPv4Address._parse_octet: 1-3 decimal digits, no leading zero, at most 255
IsOctet(s) ==
    /\ Len(s) \in 1..3
    /\ AllIn(s, DigitChars)
    /\ (Len(s) > 1 => s[1] # "0")
    /\ DecValue(s) <= 255

\* IPv4Address(s): the four octets, or None
ParseIPv4(s) ==
    LET parts == Split(s, ".")
    IN  IF Len(parts) = 4 /\ \A i \in 1..4 : IsOctet(parts[i])
        THEN Some([i \in 1..4 |-> DecValue(parts[i])])
        ELSE None

\* IPv6Address._parse_hextet: 1-4 hex digits
IsHextet(s) == Len(s) \in 1..4 /\ AllIn(Lower(s), HexChars)

\* IPv6Address._parse_hextet / the two hextets a trailing dotted quad became:
\* is group i well-formed, and its value
GroupOk(parts, hasV4, i) == (hasV4 /\ i >= Len(parts) - 1) \/ IsHextet(parts[i])
GroupValue(parts, hasV4, i) ==
    IF hasV4 /\ i >= Len(parts) - 1 THEN DecValue(parts[i]) ELSE HexValue(Lower(parts[i]))

\* the address with "::" at part k: hi groups before it, lo groups after it
ExpandSkip(parts, hasV4, hi, lo) ==
    IF (parts[1] = <<>> /\ hi # 0) \/ (parts[Len(parts)] = <<>> /\ lo # 0)
       \/ 8 - (hi + lo) < 1
       \/ ~(\A i \in 1..hi : GroupOk(parts, hasV4, i))
       \/ ~(\A i \in (Len(parts) - lo + 1)..Len(parts) : GroupOk(parts, hasV4, i))
    THEN None
    ELSE Some([i \in 1..8 |->
               IF i <= hi THEN GroupValue(parts, hasV4, i)
               ELSE IF i > 8 - lo THEN GroupValue(parts, hasV4, Len(parts) - (8 - i))
               ELSE 0])

\* the parts between the colons, at most one of them empty inside ("::")
GroupsOfParts(parts, hasV4, skips) ==
    IF Len(parts) > 9 \/ Cardinality(skips) > 1 THEN None
    ELSE IF skips = {}
    THEN IF Len(parts) = 8 /\ \A i \in 1..8 : GroupOk(parts, hasV4, i)
         THEN Some([i \in 1..8 |-> GroupValue(parts, hasV4, i)]) ELSE None
    ELSE ExpandSkip(parts, hasV4,
                    (CHOOSE i \in skips : TRUE) - 1
                        - (IF parts[1] = <<>> THEN 1 ELSE 0),
                    Len(parts) - (CHOOSE i \in skips : TRUE)
                        - (IF parts[Len(parts)] = <<>> THEN 1 ELSE 0))

SkipsOf(parts) == {i \in 2..(Len(parts) - 1) : parts[i] = <<>>}

\* a trailing dotted quad v4 is rewritten as two hextets
WithV4(raw, v4) ==
    SubSeq(raw, 1, Len(raw) - 1)
        \o <<DecString(v4[1] * 256 + v4[2]), DecString(v4[3] * 256 + v4[4])>>

GroupsOfRaw(raw, v4) ==
    IF Contains(raw[Len(raw)], <<".">>)
    THEN IF v4 = None \/ Len(raw) < 3 THEN None
         ELSE GroupsOfParts(WithV4(raw, v4[1]), TRUE, SkipsOf(WithV4(raw, v4[1])))
    ELSE IF Len(raw) < 3 THEN None
    ELSE GroupsOfParts(raw, FALSE, SkipsOf(raw))

LastOf(raw) == raw[Len(raw)]

\* IPv6Address._ip_int_from_string on the text before any %scope: the eight
\* hextets, or None
ParseIPv6Groups(s) == GroupsOfRaw(Split(s, ":"), ParseIPv4(LastOf(Split(s, ":"))))

\* IPv6Address(s), with _split_scope_id: "%" must be followed by a scope id
ParseIPv6(s) ==
    LET p == Partition(s, "%")
    IN  IF p[2] /\ (p[3] = <<>> \/ Contains(p[3], <<"%">>)) THEN None
        ELSE ParseIPv6Groups(p[1])

\* ipaddress.ip_address(s): IPv4 first, then IPv6, else ValueError (None)
ip_address(s) ==
    IF ParseIPv4(s) # None THEN Some([version |-> 4, groups |-> ParseIPv4(s)[1]])
    ELSE IF ParseIPv6(s) # None THEN Some([version |-> 6, groups |-> ParseIPv6(s)[1]])
    ELSE None

RECURSIVE Pow2(_)
Pow2(n) == IF n = 0 THEN 1 ELSE 2 * Pow2(n - 1)

\* "address in network": the first plen bits of groups (width bits each) agree
InPrefix(groups, base, plen, width) ==
    LET full == plen \div width
        rem == plen % width
    IN  /\ \A i \in 1..full : groups[i] = base[i]
        /\ rem # 0 => groups[full + 1] \div Pow2(width - rem) = base[full + 1] \div Pow2(width - rem)

InNet4(groups, net) == InPrefix(groups, ParseIPv4(net[1])[1], net[2], 8)
InNet6(groups, net) == InPrefix(groups, ParseIPv6(net[1])[1], net[2], 16)

\* _IPv4Constants
V4PrivateNetworks ==
    {<<<<"0",".","0",".","0",".","0">>, 8>>,
     <<<<"1","0",".","0",".","0",".","0">>, 8>>,
     <<<<"1","2","7",".","0",".","0",".","0">>, 8>>,
     <<<<"1","6","9",".","2","5","4",".","0",".","0">>, 16>>,
     <<<<"1","7","2",".","1","6",".","0",".","0">>, 12>>,
     <<<<"1","9","2",".","0",".","0",".","0">>, 29>>,
     <<<<"1","9","2",".","0",".","0",".","1","7","0">>, 31>>,
     <<<<"1","9","2",".","0",".","2",".","0">>, 24>>,
     <<<<"1","9","2",".","1","6","8",".","0",".","0">>, 16>>,
     <<<<"1","9","8",".","1","8",".","0",".","0">>, 15>>,
     <<<<"1","9","8",".","5","1",".","1","0","0",".","0">>, 24>>,
     <<<<"2","0","3",".","0",".","1","1","3",".","0">>, 24>>,
     <<<<"2","4","0",".","0",".","0",".","0">>, 4>>,
     <<<<"2","5","5",".","2","5","5",".","2","5","5",".","2","5","5">>, 32>>}
V4Loopback == <<<<"1","2","7",".","0",".","0",".","0">>, 8>>
V4LinkLocal == <<<<"1","6","9",".","2","5","4",".","0",".","0">>, 16>>
V4Multicast == <<<<"2","2","4",".","0",".","0",".","0">>, 4>>
V4Reserved == <<<<"2","4","0",".","0",".","0",".","0">>, 4>>
\* _IPv6Constants
V6PrivateNetworks ==
    {<<<<":",":","1">>, 128>>,
     <<<<":",":">>, 128>>,
     <<<<":",":","f","f","f","f",":","0",":","0">>, 96>>,
     <<<<"1","0","0",":",":">>, 64>>,
     <<<<"2","0","0","1",":",":">>, 23>>,
     <<<<"2","0","0","1",":","2",":",":">>, 48>>,
     <<<<"2","0","0","1",":","d","b","8",":",":">>, 32>>,
     <<<<"2","0","0","1",":","1","0",":",":">>, 28>>,
     <<<<"f","c","0","0",":",":">>, 7>>,
     <<<<"f","e","8","0",":",":">>, 10>>}
V6ReservedNetworks ==
    {<<<<":",":">>, 8>>,
     <<<<"1","0","0",":",":">>, 8>>,
     <<<<"2","0","0",":",":">>, 7>>,
     <<<<"4","0","0",":",":">>, 6>>,
     <<<<"8","0","0",":",":">>, 5>>,
     <<<<"1","0","0","0",":",":">>, 4>>,
     <<<<"4","0","0","0",":",":">>, 3>>,
     <<<<"6","0","0","0",":",":">>, 3>>,
     <<<<"8","0","0","0",":",":">>, 3>>,
     <<<<"a","0","0","0",":",":">>, 3>>,
     <<<<"c","0","0","0",":",":">>, 3>>,
     <<<<"e","0","0","0",":",":">>, 4>>,
     <<<<"f","0","0","0",":",":">>, 5>>,
     <<<<"f","8","0","0",":",":">>, 6>>,
     <<<<"f","e","0","0",":",":">>, 9>>}
V6LinkLocal == <<<<"f","e","8","0",":",":">>, 10>>
V6Multicast == <<<<"f","f","0","0",":",":">>, 8>>

\* IPv6Address.ipv4_mapped: the IPv4 address of ::ffff:a.b.c.d, or None
ipv4_mapped(g) ==
    IF (\A i \in 1..5 : g[i] = 0) /\ g[6] = 65535
    THEN Some(<<g[7] \div 256, g[7] % 256, g[8] \div 256, g[8] % 256>>)
    ELSE None

is_loopback(ip) ==
    IF ip.version = 4 THEN InNet4(ip.groups, V4Loopback)
    ELSE ip.groups = <<0, 0, 0, 0, 0, 0, 0, 1>>
is_private(ip) ==
    IF ip.version = 4 THEN \E net \in V4PrivateNetworks : InNet4(ip.groups, net)
    ELSE IF ipv4_mapped(ip.groups) # None
    THEN \E net \in V4PrivateNetworks : InNet4(ipv4_mapped(ip.groups)[1], net)
    ELSE \E net \in V6PrivateNetworks : InNet6(ip.groups, net)
is_link_local(ip) ==
    IF ip.version = 4 THEN InNet4(ip.groups, V4LinkLocal) ELSE InNet6(ip.groups, V6LinkLocal)
is_multicast(ip) ==
    IF ip.version = 4 THEN InNet4(ip.groups, V4Multicast) ELSE InNet6(ip.groups, V6Multicast)
is_reserved(ip) ==
    IF ip.version = 4 THEN InNet4(ip.groups, V4Reserved)
    ELSE \E net \in V6ReservedNetworks : InNet6(ip.groups, net)
is_unspecified(ip) ==
    IF ip.version = 4 THEN ip.groups = <<0, 0, 0, 0>>
    ELSE ip.groups = <<0, 0, 0, 0, 0, 0, 0, 0>>

(***************************************************************************)
(* urllib.parse.urlparse (CPython 3.11): scheme, netloc and hostname       *)
(***************************************************************************)
SchemeChars == LowerChars \o UpperChars \o DigitChars \o <<"+", "-", ".">>
IsAsciiAlpha(c) == c \in Range(LowerChars) \cup Range(UpperChars)

e_ipv6_url == <<"I","n","v","a","l","i","d"," ","I","P","v","6"," ","U","R","L">>
e_ipvfuture == <<"I","P","v","F","u","t","u","r","e"," ","a","d","d","r","e","s","s"," ","i","s"," ","i","n","v","a","l","i","d">>
e_v4_brackets == <<"A","n"," ","I","P","v","4"," ","a","d","d","r","e","s","s"," ","c","a","n","n","o","t"," ","b","e"," ","i","n"," ","b","r","a","c","k","e","t","s">>
e_not_ip == <<" ","d","o","e","s"," ","n","o","t"," ","a","p","p","e","a","r"," ","t","o"," ","b","e"," ","a","n"," ","I","P","v","4"," ","o","r"," ","I","P","v","6"," ","a","d","d","r","e","s","s">>

\* urlsplit drops tab, CR and LF wherever they stand
RemoveUnsafe(url) == SelectSeq(url, LAMBDA c : c \notin {"\t", "\r", "\n"})

\* position of the ":" that ends a scheme, 0 if the URL has no scheme
SchemeEnd(url) ==
    LET i == Find(url, <<":">>)
    IN  IF i > 1 /\ IsAsciiAlpha(url[1]) /\ AllIn(SubSeq(url, 1, i - 1), SchemeChars)
        THEN i ELSE 0

\* _splitnetloc(rest, 2): up to the first of "/", "?", "#"
SplitNetloc(rest) ==
    LET ends == {i \in 3..Len(rest) : rest[i] \in {"/", "?", "#"}}
    IN  SubSeq(rest, 3, IF ends = {} THEN Len(rest) ELSE MinOf(ends) - 1)

\* _check_bracketed_host: the error it raises, or None
CheckBracketedHost(h) ==
    IF StartsWith(h, <<"v">>)
    THEN LET dot == Find(h, <<".">>)
         IN  IF dot > 2 /\ dot < Len(h) /\ AllIn(Lower(SubSeq(h, 2, dot - 1)), HexChars)
             THEN None ELSE Some(e_ipvfuture)
    ELSE IF ip_address(h) = None THEN Some(<<"'">> \o h \o <<"'">> \o e_not_ip)
    ELSE IF ip_address(h)[1].version = 4 THEN Some(e_v4_brackets)
    ELSE None

\* urlparse(url): [error, scheme, netloc]; error is the ValueError raised, or None
urlparse(url0) ==
    LET url == RemoveUnsafe(url0)
        i == SchemeEnd(url)
        scheme == IF i = 0 THEN <<>> ELSE Lower(SubSeq(url, 1, i - 1))
        rest == IF i = 0 THEN url ELSE SubSeq(url, i + 1, Len(url))
        netloc == IF StartsWith(rest, <<"/", "/">>) THEN SplitNetloc(rest) ELSE <<>>
        open == Contains(netloc, <<"[">>)
        close == Contains(netloc, <<"]">>)
        bracketed == Partition(Partition(netloc, "[")[3], "]")[1]
        error == IF open # close THEN Some(e_ipv6_url)
                 ELSE IF open /\ close THEN CheckBracketedHost(bracketed)
                 ELSE None
    IN  [error |-> error, scheme |-> scheme, netloc |-> netloc]

\* ParseResult.hostname: None for an empty host; lower-cased except the zone
hostname_of(netloc) ==
    LET hostinfo == RPartition(netloc, "@")[3]
        br == Partition(hostinfo, "[")
        host == IF br[2] THEN Partition(br[3], "]")[1] ELSE Partition(hostinfo, ":")[1]
        z == Partition(host, "%")
    IN  IF host = <<>> THEN None
        ELSE Some(Lower(z[1]) \o (IF z[2] THEN <<"%">> ELSE <<>>) \o z[3])

(***************************************************************************)
(* url_validator.py                                                        *)
(***************************************************************************)
s_http_pfx == <<"h","t","t","p",":","/","/">>
s_https_pfx == <<"h","t","t","p","s",":","/","/">>
s_sep == <<":","/","/">>
s_http == <<"h","t","t","p">>
s_https == <<"h","t","t","p","s">>
s_file == <<"f","i","l","e">>
s_ftp == <<"f","t","p">>
s_sftp == <<"s","f","t","p">>
s_data == <<"d","a","t","a">>
s_javascript == <<"j","a","v","a","s","c","r","i","p","t">>
s_localhost == <<"l","o","c","a","l","h","o","s","t">>
s_local == <<"l","o","c","a","l">>
s_dot_local == <<".","l","o","c","a","l">>
m_empty == <<"U","R","L"," ","c","a","n","n","o","t"," ","b","e"," ","e","m","p","t","y">>
m_not_string == <<"U","R","L"," ","m","u","s","t"," ","b","e"," ","a"," ","s","t","r","i","n","g">>
m_format == <<"I","n","v","a","l","i","d"," ","U","R","L"," ","f","o","r","m","a","t">>
m_parse == <<"F","a","i","l","e","d"," ","t","o"," ","p","a","r","s","e"," ","U","R","L",":"," ">>
m_blocked_scheme == <<"B","l","o","c","k","e","d"," ","s","c","h","e","m","e",":"," ">>
m_unsupported_scheme == <<"U","n","s","u","p","p","o","r","t","e","d"," ","s","c","h","e","m","e",":"," ">>
m_only_http == <<"."," ","O","n","l","y"," ","H","T","T","P"," ","a","n","d"," ","H","T","T","P","S"," ","a","r","e"," ","a","l","l","o","w","e","d",".">>
m_access_to == <<"A","c","c","e","s","s"," ","t","o"," ">>
m_not_allowed == <<" ","i","s"," ","n","o","t"," ","a","l","l","o","w","e","d">>
m_private_ip == <<"A","c","c","e","s","s"," ","t","o"," ","p","r","i","v","a","t","e"," ","o","r"," ","r","e","s","e","r","v","e","d"," ","I","P"," ","r","a","n","g","e","s"," ","i","s"," ","n","o","t"," ","a","l","l","o","w","e","d">>
m_too_long == <<"U","R","L"," ","i","s"," ","t","o","o"," ","l","o","n","g"," ","(","m","a","x"," ","2","0","4","8"," ","c","h","a","r","a","c","t","e","r","s",")">>

MaxUrlLength == 2048

\* mutant of blocked_schemes: sftp is missing from the deny-set
blocked_schemes_no_sftp == {s_file, s_ftp, s_data, s_javascript}

\* URLValidator.__init__
blocked_schemes == {s_file, s_ftp, s_sftp, s_data, s_javascript}
blocked_domains == {s_localhost, s_local}
allowed_schemes == {s_http, s_https}

\* ValidationResult
ValidationResult(ok, msg, norm) ==
    [is_valid |-> ok, error_message |-> msg, normalized_url |-> norm]

\* mutant of Invalid: a rejection carries no message
Invalid_silent(msg) == ValidationResult(FALSE, None, None)

Invalid(msg) == ValidationResult(FALSE, Some(msg), None)
Valid(norm) == ValidationResult(TRUE, None, Some(norm))

\* mutant of normalize_url: a URL with a scheme other than http(s) gets the
\* prefix too
normalize_url_always(url0) ==
    LET url == Strip(url0)
    IN  IF ~(StartsWith(url, s_http_pfx) \/ StartsWith(url, s_https_pfx))
        THEN s_https_pfx \o url
        ELSE url

\* mutant of normalize_url: the prefix is added without looking at the URL
normalize_url_prefixed(url0) == s_https_pfx \o Strip(url0)

\* URLValidator._normalize_url
normalize_url(url0) ==
    LET url == Strip(url0)
    IN  IF ~(StartsWith(url, s_http_pfx) \/ StartsWith(url, s_https_pfx))
        THEN IF Contains(url, s_sep) THEN url ELSE s_https_pfx \o url
        ELSE url

\* mutant of is_blocked_ip: the multicast test is forgotten
is_blocked_ip_no_multicast(ip) ==
    \/ is_loopback(ip)
    \/ is_private(ip)
    \/ is_link_local(ip)
    \/ is_reserved(ip)
    \/ is_unspecified(ip)

\* URLValidator._is_blocked_ip
is_blocked_ip(ip) ==
    \/ is_loopback(ip)
    \/ is_private(ip)
    \/ is_link_local(ip)
    \/ is_multicast(ip)
    \/ is_reserved(ip)
    \/ is_unspecified(ip)

\* A Python value handed to validate: a str, an int or None
PyStr(s) == [type |-> "str", s |-> s, n |-> 0]
PyInt(n) == [type |-> "int", s |-> <<>>, n |-> n]
PyNone == [type |-> "NoneType", s |-> <<>>, n |-> 0]
\* bool(value)
Truthy(v) ==
    IF v.type = "str" THEN v.s # <<>>
    ELSE IF v.type = "int" THEN v.n # 0
    ELSE FALSE

\* the host check of validate, lines 89-111: the rejection, or None
HostCheck(hostname) ==
    IF hostname = None THEN None
    ELSE LET hostname_lower == Lower(hostname[1])
         IN  IF hostname_lower \in blocked_domains \/ EndsWith(hostname_lower, s_dot_local)
             THEN Some(Invalid(m_access_to \o hostname[1] \o m_not_allowed))
             ELSE IF ip_address(hostname_lower) # None
                     /\ is_blocked_ip(ip_address(hostname_lower)[1])
             THEN Some(Invalid(m_private_ip))
             ELSE None

\* the scheme check of validate, lines 75-87: the rejection, or None
SchemeCheck(scheme0) ==
    LET scheme == Lower(scheme0)
    IN  IF scheme \notin allowed_schemes
        THEN IF scheme \in blocked_schemes
             THEN Some(Invalid(m_blocked_scheme \o scheme))
             ELSE Some(Invalid(m_unsupported_scheme \o scheme \o m_only_http))
        ELSE None

\* mutant of TooLong: a URL of exactly 2048 characters is too long
TooLong_inclusive(normalized_url) == Len(normalized_url) >= MaxUrlLength

\* line 114: len(normalized_url) > 2048
TooLong(normalized_url) == Len(normalized_url) > MaxUrlLength

\* URLValidator.validate.  format_ok is what validators.url(normalized_url)
\* answers: the library is not part of the repository and no version is
\* pinned, so its verdict on a string is an input.
validate(url, format_ok) ==
    IF ~Truthy(url) THEN Invalid(m_empty)
    ELSE IF url.type # "str" THEN Invalid(m_not_string)
    ELSE LET normalized_url == normalize_url(url.s)
             parsed == urlparse(normalized_url)
         IN  IF ~format_ok THEN Invalid(m_format)
             ELSE IF parsed.error # None THEN Invalid(m_parse \o parsed.error[1])
             ELSE IF SchemeCheck(parsed.scheme) # None THEN SchemeCheck(parsed.scheme)[1]
             ELSE IF HostCheck(hostname_of(parsed.netloc)) # None
                  THEN HostCheck(hostname_of(parsed.netloc))[1]
             ELSE IF TooLong(normalized_url) THEN Invalid(m_too_long)
             ELSE Valid(normalized_url)

(***************************************************************************)
(* The validator as a state machine: a call of validate on an input        *)
(* assembled from the parts below.                                         *)
(***************************************************************************)
UrlLeads ==
    {<<>>,
     <<" ">>}
UrlSchemes ==
    {<<>>,
     <<"h","t","t","p",":","/","/">>,
     <<"h","t","t","p","s",":","/","/">>,
     <<"H","T","T","P",":","/","/">>,
     <<"f","t","p",":","/","/">>,
     <<"f","i","l","e",":","/","/">>,
     <<"s","f","t","p",":","/","/">>,
     <<"l","d","a","p",":","/","/">>,
     <<"d","a","t","a",":">>,
     <<"j","a","v","a","s","c","r","i","p","t",":">>,
     <<":","/","/">>}
UrlUsers ==
    {<<>>,
     <<"u","@">>}
UrlHosts ==
    {<<"e","x","a","m","p","l","e",".","c","o","m">>,
     <<"l","o","c","a","l","h","o","s","t">>,
     <<"L","o","c","a","l","H","o","s","t">>,
     <<"l","o","c","a","l">>,
     <<"p","r","i","n","t","e","r",".","l","o","c","a","l">>,
     <<"a",".","L","O","C","A","L">>,
     <<"l","o","c","a","l","h","o","s","t",".">>,
     <<"m","y","l","o","c","a","l">>,
     <<"1","2","7",".","0",".","0",".","1">>,
     <<"1","0",".","0",".","0",".","1">>,
     <<"1","7","2",".","1","6",".","0",".","1">>,
     <<"1","9","2",".","1","6","8",".","1",".","1">>,
     <<"1","6","9",".","2","5","4",".","1",".","1">>,
     <<"0",".","0",".","0",".","0">>,
     <<"2","2","4",".","0",".","0",".","1">>,
     <<"2","4","0",".","0",".","0",".","1">>,
     <<"8",".","8",".","8",".","8">>,
     <<"1","7","2",".","3","2",".","0",".","1">>,
     <<"0","1","0",".","0",".","0",".","1">>,
     <<"1","2","7",".","1">>,
     <<"[",":",":","1","]">>,
     <<":",":","1">>,
     <<"[",":",":","]">>,
     <<"[","f","e","8","0",":",":","1","%","2","5","e","t","h","0","]">>,
     <<"[","F","F","0","2",":",":","1","]">>,
     <<"[","f","c","0","0",":",":","1","]">>,
     <<"[",":",":","f","f","f","f",":","1","0",".","0",".","0",".","1","]">>,
     <<"[","2","6","0","6",":","4","7","0","0",":",":","1","1","1","1","]">>,
     <<"[",":",":","1">>,
     <<"[","1","2","7",".","0",".","0",".","1","]">>,
     <<>>}
UrlPorts ==
    {<<>>,
     <<":","8","0">>}
UrlPaths ==
    {<<>>,
     <<"/","p","?","q","=","1">>}

UrlStrings ==
    {lead \o scheme \o user \o host \o port \o path :
        lead \in UrlLeads, scheme \in UrlSchemes, user \in UrlUsers,
        host \in UrlHosts, port \in UrlPorts, path \in UrlPaths}

\* URLs around the length limit: a start, filled up with path characters to a
\* length of 2048 or 2049, before or after normalization
LongStarts ==
    {<<"h","t","t","p","s",":","/","/","e","x","a","m","p","l","e",".","c","o","m","/">>,
     <<"e","x","a","m","p","l","e",".","c","o","m","/">>,
     <<" ","h","t","t","p",":","/","/","e","x","a","m","p","l","e",".","c","o","m","/">>,
     <<"f","t","p",":","/","/","e","x","a","m","p","l","e",".","c","o","m","/">>,
     <<"h","t","t","p",":","/","/","l","o","c","a","l","h","o","s","t","/">>,
     <<"h","t","t","p",":","/","/","1","0",".","0",".","0",".","1","/">>}
LongLengths ==
    {MaxUrlLength - Len(s_https_pfx), MaxUrlLength - Len(s_https_pfx) + 1,
     MaxUrlLength, MaxUrlLength + 1, MaxUrlLength + 2}
FillTo(start, n) == start \o [i \in 1..(n - Len(start)) |-> "a"]
LongUrls == {FillTo(start, n) : start \in LongStarts, n \in LongLengths}

ValidateInputs ==
    {PyStr(s) : s \in UrlStrings \cup LongUrls} \cup {PyNone, PyInt(0), PyInt(123)}

VARIABLES
    v_url,          \* the argument of the validate call
    v_format_ok,    \* what validators.url answers for it
    v_result        \* the ValidationResult returned, None while the call is pending

vvars == <<v_url, v_format_ok, v_result>>

VInit ==
    /\ v_url \in ValidateInputs
    /\ v_format_ok \in BOOLEAN
    /\ v_result = None

ValidateCall ==
    /\ v_result = None
    /\ v_result' = Some(validate(v_url, v_format_ok))
    /\ UNCHANGED <<v_url, v_format_ok>>

\* what the finished call was about: the normalized URL, its parse, its host
v_done == v_result # None
v_is_str == v_url.type = "str"
v_normalized == normalize_url(v_url.s)
v_parsed == urlparse(v_normalized)
v_hostname == hostname_of(v_parsed.netloc)

\* a host the specification forbids: a blocked literal, a .local name, or an
\* IP literal of one of the six blocked classes
ForbiddenHost(h) ==
    \/ h \in {s_localhost, <<"0",".","0",".","0",".","0">>, <<":",":","1">>}
    \/ EndsWith(h, s_dot_local)
    \/ /\ ip_address(h) # None
       /\ LET ip == ip_address(h)[1]
          IN  \/ is_loopback(ip) \/ is_private(ip) \/ is_link_local(ip)
              \/ is_multicast(ip) \/ is_reserved(ip) \/ is_unspecified(ip)

\* C1: validate never returns is_valid = TRUE for a URL whose lower-cased
\* hostname is localhost, 0.0.0.0 or ::1, ends with .local, or is an IP literal
\* that is loopback, private, link-local, multicast, reserved or unspecified,
\* whatever its scheme, userinfo, port or path and whatever validators.url
\* answered.
C1_NoForbiddenHostValid ==
    (v_done /\ v_is_str /\ v_hostname # None /\ ForbiddenHost(Lower(v_hostname[1])))
        => ~v_result[1].is_valid

\* C1 witness: a multicast IPv6 literal passed the format and scheme checks and
\* was rejected by the host check.
C1_Witness ==
    /\ v_done /\ v_is_str /\ v_format_ok
    /\ v_hostname = Some(<<"f","f","0","2",":",":","1">>)
    /\ v_result = Some(Invalid(m_private_ip))

\* C2: a valid result has scheme http or https; once the format check passed
\* and the URL parsed, a scheme of the deny-set is rejected with "Blocked
\* scheme: <scheme>" and any other scheme but http(s) with "Unsupported scheme:
\* <scheme>. Only HTTP and HTTPS are allowed.".
C2_SchemeGate ==
    (v_done /\ v_is_str) =>
        LET r == v_result[1]
            scheme == v_parsed.scheme
            deny == {s_file, s_ftp, s_sftp, s_data, s_javascript}
            reached == v_format_ok /\ v_parsed.error = None
        IN  /\ r.is_valid =>
                /\ r.normalized_url # None
                /\ urlparse(r.normalized_url[1]).scheme \in {s_http, s_https}
            /\ (reached /\ scheme \in deny) =>
                r = Invalid(m_blocked_scheme \o scheme)
            /\ (reached /\ scheme \notin deny \cup {s_http, s_https}) =>
                r = Invalid(m_unsupported_scheme \o scheme \o m_only_http)

\* C2 witness: sftp://... passed the format check and was rejected as blocked,
\* and ldap://... as unsupported: both branches are reached.
C2_Witness ==
    /\ v_done /\ v_format_ok
    /\ v_result = Some(Invalid(m_blocked_scheme \o s_sftp))
C2_WitnessUnsupported ==
    /\ v_done /\ v_format_ok
    /\ v_result = Some(Invalid(m_unsupported_scheme \o <<"l","d","a","p">> \o m_only_http))

(***************************************************************************)
(* config.py and text_extractor.py: values                                 *)
(***************************************************************************)
t_html == <<"t","e","x","t","/","h","t","m","l">>
t_plain == <<"t","e","x","t","/","p","l","a","i","n">>
t_xhtml == <<"a","p","p","l","i","c","a","t","i","o","n","/","x","h","t","m","l","+","x","m","l">>
t_xml == <<"t","e","x","t","/","x","m","l">>
t_appxml == <<"a","p","p","l","i","c","a","t","i","o","n","/","x","m","l">>
\* mutant of m_rate_limit: the message is cut short
m_rate_limit_short == <<"R","a","t","e"," ","l","i","m","i","t"," ","e","x","c","e","e","d","e","d">>
m_rate_limit == <<"R","a","t","e"," ","l","i","m","i","t"," ","e","x","c","e","e","d","e","d","."," ","P","l","e","a","s","e"," ","t","r","y"," ","a","g","a","i","n"," ","l","a","t","e","r",".">>
m_404 == <<"P","a","g","e"," ","n","o","t"," ","f","o","u","n","d"," ","(","4","0","4",")">>
m_403 == <<"A","c","c","e","s","s"," ","f","o","r","b","i","d","d","e","n"," ","(","4","0","3",")">>
m_429 == <<"T","o","o"," ","m","a","n","y"," ","r","e","q","u","e","s","t","s"," ","(","4","2","9",")","."," ","P","l","e","a","s","e"," ","t","r","y"," ","a","g","a","i","n"," ","l","a","t","e","r",".">>
m_http_error == <<"H","T","T","P"," ","e","r","r","o","r"," ">>
m_unsupported_type == <<"U","n","s","u","p","p","o","r","t","e","d"," ","c","o","n","t","e","n","t"," ","t","y","p","e",":"," ">>
m_too_large == <<"C","o","n","t","e","n","t"," ","t","o","o"," ","l","a","r","g","e"," ","(","e","x","c","e","e","d","s"," ">>
m_mb_limit == <<"M","B"," ","l","i","m","i","t",")">>
m_decode == <<"F","a","i","l","e","d"," ","t","o"," ","d","e","c","o","d","e"," ","c","o","n","t","e","n","t",":"," ">>
m_read_error == <<"E","r","r","o","r"," ","r","e","a","d","i","n","g"," ","r","e","s","p","o","n","s","e",":"," ">>
m_no_text == <<"N","o"," ","r","e","a","d","a","b","l","e"," ","t","e","x","t"," ","c","o","n","t","e","n","t"," ","f","o","u","n","d">>
m_timed_out == <<"R","e","q","u","e","s","t"," ","t","i","m","e","d"," ","o","u","t"," ","a","f","t","e","r"," ">>
m_seconds == <<" ","s","e","c","o","n","d","s">>
m_connection == <<"C","o","n","n","e","c","t","i","o","n"," ","e","r","r","o","r",":"," ">>
m_network == <<"N","e","t","w","o","r","k"," ","e","r","r","o","r",":"," ">>
m_unexpected == <<"U","n","e","x","p","e","c","t","e","d"," ","e","r","r","o","r",":"," ">>

\* Config.supported_content_types
supported_content_types == {t_html, t_plain, t_xhtml, t_xml, t_appxml}

\* Config fields, scaled down so that TLC can fill the window and the buffer:
\* rate_limit_requests, rate_limit_window (seconds), max_content_length (bytes)
RateLimitRequests == 2
RateLimitWindow == 1
MaxContentLength == 2

\* ExtractionResult
ExtractionResult(success, text, title, ctype, status, msg, url) ==
    [success |-> success, text_content |-> text, title |-> title,
     content_type |-> ctype, status_code |-> status, error_message |-> msg,
     url |-> Some(url)]
\* the failure results of extract_text, by what they carry
Failure(msg, url) == ExtractionResult(FALSE, None, None, None, None, Some(msg), url)
StatusFailure(msg, status, url) ==
    ExtractionResult(FALSE, None, None, None, Some(status), Some(msg), url)
ContentFailure(msg, ctype, status, url) ==
    ExtractionResult(FALSE, None, None, Some(ctype), Some(status), Some(msg), url)

\* mutant of PurgeOld: a timestamp exactly one window old is kept
PurgeOld_inclusive(times, current_time) ==
    SelectSeq(times, LAMBDA req_time : current_time - req_time <= RateLimitWindow)

\* TextExtractor._check_rate_limit: the timestamps kept, and the verdict
PurgeOld(times, current_time) ==
    SelectSeq(times, LAMBDA req_time : current_time - req_time < RateLimitWindow)
UnderLimit(times) == Len(times) < RateLimitRequests

\* mutant of RecordRequest: the admitted request is not recorded
RecordRequest_skip(times, t) == times

\* extract_text line 78: self.request_times.append(time.time())
RecordRequest(times, t) == Append(times, t)

\* mutant of RunningAfterCheck: an await between the check and the append
RunningAfterCheck_await(p) == None

\* the coroutine that holds the event loop after the rate-limit check: lines
\* 70-78 hold no await, so it is still the caller
RunningAfterCheck(p) == Some(p)

\* mutant of StatusError: 400 itself passes as no error
StatusError_above400(status_code) ==
    IF status_code = 404 THEN Some(m_404)
    ELSE IF status_code = 403 THEN Some(m_403)
    ELSE IF status_code = 429 THEN Some(m_429)
    ELSE IF status_code > 400 THEN Some(m_http_error \o DecString(status_code))
    ELSE None

\* the status classification, lines 98-125: the message, or None below 400
StatusError(status_code) ==
    IF status_code = 404 THEN Some(m_404)
    ELSE IF status_code = 403 THEN Some(m_403)
    ELSE IF status_code = 429 THEN Some(m_429)
    ELSE IF status_code >= 400 THEN Some(m_http_error \o DecString(status_code))
    ELSE None

\* mutant of ContentTypeOf: the header is not lower-cased
ContentTypeOf_raw(header) == IF header = None THEN <<>> ELSE header[1]

\* response.headers.get('content-type', '').lower(); header is None when absent
ContentTypeOf(header) == Lower(IF header = None THEN <<>> ELSE header[1])

\* TextExtractor._is_supported_content_type
is_supported_content_type(content_type) ==
    \E supported_type \in supported_content_types : Contains(content_type, supported_type)

\* f"{max_size / (1024*1024):.1f}": one decimal, ties to even
FormatMB(max_size) ==
    LET scaled == max_size * 10
        q == scaled \div 1048576
        r == scaled % 1048576
        tenths == IF r > 524288 \/ (r = 524288 /\ q % 2 = 1) THEN q + 1 ELSE q
    IN  DecString(tenths \div 10) \o <<".">> \o DecString(tenths % 10)
TooLargeMessage == m_too_large \o FormatMB(MaxContentLength) \o m_mb_limit

\* aiohttp ClientResponse.charset: the charset parameter of the content-type
\* header, or None
CharsetOf(header) ==
    IF header = None THEN None
    ELSE LET params == Split(header[1], ";")
             key(i) == Lower(Strip(Partition(params[i], "=")[1]))
             hits == {i \in 2..Len(params) : key(i) = <<"c","h","a","r","s","e","t">>}
         IN  IF hits = {} THEN None
             ELSE Some(Strip(Partition(params[MinOf(hits)], "=")[3]))

\* the codecs bytes.decode can look up, by normalized name; any other name
\* raises LookupError
Utf8Names == {<<"u","t","f","-","8">>, <<"u","t","f","8">>}
Latin1Names == {<<"l","a","t","i","n","-","1">>, <<"i","s","o","-","8","8","5","9","-","1">>}
e_unknown_encoding == <<"u","n","k","n","o","w","n"," ","e","n","c","o","d","i","n","g",":"," ">>

e_invalid_start_byte == <<"'","u","t","f","-","8","'"," ","c","o","d","e","c"," ","c","a","n","'","t"," ","d","e","c","o","d","e"," ","b","y","t","e"," ","0","x","f","f"," ","i","n"," ","p","o","s","i","t","i","o","n"," ","0",":"," ","i","n","v","a","l","i","d"," ","s","t","a","r","t"," ","b","y","t","e">>

\* a body byte: an ASCII character, or the byte 0xFF that no UTF-8 text holds
InvalidByte == "\\xff"
ReplacementChar == "\\ufffd"
Latin1Y == "\\u00ff"

\* mutant of Decode: errors='strict', an invalid byte raises
Decode_strict(content_bytes, charset) ==
    LET name == IF charset = None \/ charset = Some(<<>>) THEN <<"u","t","f","-","8">> ELSE charset[1]
        codec == Lower(name)
    IN  IF codec \in Utf8Names
        THEN IF \E i \in DOMAIN content_bytes : content_bytes[i] = InvalidByte
             THEN [error |-> Some(e_invalid_start_byte), content |-> <<>>]
             ELSE [error |-> None, content |-> content_bytes]
        ELSE IF codec \in Latin1Names
        THEN [error |-> None,
              content |-> [i \in DOMAIN content_bytes |->
                            IF content_bytes[i] = InvalidByte THEN Latin1Y
                            ELSE content_bytes[i]]]
        ELSE [error |-> Some(e_unknown_encoding \o name), content |-> <<>>]

\* content_bytes.decode(response.charset or 'utf-8', errors='replace'):
\* [error, content]
Decode(content_bytes, charset) ==
    LET name == IF charset = None \/ charset = Some(<<>>) THEN <<"u","t","f","-","8">> ELSE charset[1]
        codec == Lower(name)
    IN  IF codec \in Utf8Names
        THEN [error |-> None,
              content |-> [i \in DOMAIN content_bytes |->
                            IF content_bytes[i] = InvalidByte THEN ReplacementChar
                            ELSE content_bytes[i]]]
        ELSE IF codec \in Latin1Names
        THEN [error |-> None,
              content |-> [i \in DOMAIN content_bytes |->
                            IF content_bytes[i] = InvalidByte THEN Latin1Y
                            ELSE content_bytes[i]]]
        ELSE [error |-> Some(e_unknown_encoding \o name), content |-> <<>>]

\* '\n'.join(line for line in (l.strip() for l in text.splitlines()) if line)
RECURSIVE JoinLines(_)
JoinLines(lines) ==
    IF lines = <<>> THEN <<>>
    ELSE IF Len(lines) = 1 THEN lines[1]
    ELSE lines[1] \o <<"\n">> \o JoinLines(Tail(lines))
CleanLines(text) ==
    LET lines == Split(text, "\n")
        stripped == [i \in DOMAIN lines |-> Strip(lines[i])]
    IN  JoinLines(SelectSeq(stripped, LAMBDA line : line # <<>>))

MinHeuristicLength == 50

\* TextExtractor._extract_text_content: <<extracted_text, title>>.  What the
\* HTML libraries make of the content is given by html:
\*   soup_raises         BeautifulSoup(content, 'html.parser') raises
\*   title_text          title_tag.get_text() of the <title>, None without one
\*   trafilatura_raises  trafilatura.extract raises
\*   trafilatura         what trafilatura.extract returns (None or a string)
\*   main_text           main_content.get_text(separator='\n\n') of the main,
\*                       article, div#content or body element, None without one
\* mutant of PlainText: the content is returned untrimmed
PlainText_raw(content) == <<Some(content), None>>

\* line 233: return content.strip(), None
PlainText(content) == <<Some(Strip(content)), None>>

\* mutant of HeuristicSufficient: any result of trafilatura is taken
HeuristicSufficient_any(extracted) == extracted # None /\ extracted[1] # <<>>

\* line 256: if extracted_text and len(extracted_text.strip()) > 50
HeuristicSufficient(extracted) ==
    /\ extracted # None /\ extracted[1] # <<>>
    /\ Len(Strip(extracted[1])) > MinHeuristicLength

\* the HTML libraries are asked only when the content is no plain text
HtmlAsked(content_type, html) ==
    IF Contains(content_type, t_plain) THEN None ELSE Some(html)

\* mutant of TitleOf: the text of the <title> is returned untrimmed
TitleOf_raw(html) ==
    IF html.soup_raises \/ html.title_text = None THEN None
    ELSE Some(html.title_text[1])

\* lines 238-245: title = title_tag.get_text().strip(), None when the parser
\* raises or the document has no <title>
TitleOf(html) ==
    IF html.soup_raises \/ html.title_text = None THEN None
    ELSE Some(Strip(html.title_text[1]))

extract_text_content(content, content_type, html) ==
    IF Contains(content_type, t_plain) THEN PlainText(content)
    ELSE LET title == TitleOf(html)
             extracted == html.trafilatura
             text == IF html.main_text = None THEN <<>> ELSE CleanLines(html.main_text[1])
         IN  IF html.trafilatura_raises THEN <<None, None>>
             ELSE IF HeuristicSufficient(extracted)
             THEN <<Some(Strip(extracted[1])), title>>
             \* soup is parsed again when there is no (or an empty) title
             ELSE IF html.soup_raises THEN <<None, None>>
             ELSE IF html.main_text # None /\ Strip(text) # <<>>
             THEN <<Some(Strip(text)), title>>
             ELSE <<None, title>>

\* mutant of NoText: an empty extraction is taken for text
NoText_never(extracted_text) == FALSE

\* not extracted_text: None or the empty string
NoText(extracted_text) == extracted_text = None \/ extracted_text = Some(<<>>)

\* Exceptions: [cls, detail], detail being str(e); Bases gives the classes an
\* except clause matches
ExceptionBases ==
    [TimeoutError |-> {"TimeoutError", "Exception"},
     ServerTimeoutError |-> {"ServerTimeoutError", "TimeoutError", "ClientConnectionError",
                             "ClientError", "Exception"},
     ClientConnectorError |-> {"ClientConnectorError", "ClientConnectionError",
                               "ClientError", "Exception"},
     ServerDisconnectedError |-> {"ServerDisconnectedError", "ClientConnectionError",
                                  "ClientError", "Exception"},
     ClientPayloadError |-> {"ClientPayloadError", "ClientError", "Exception"},
     InvalidURL |-> {"InvalidURL", "ClientError", "ValueError", "Exception"},
     TypeError |-> {"TypeError", "Exception"},
     RuntimeError |-> {"RuntimeError", "Exception"}]
IsInstance(e, cls) == cls \in ExceptionBases[e.cls]
Exc(cls, detail) == [cls |-> cls, detail |-> detail]

\* mutant of Caught: the final "except Exception" clause is missing
Caught_transport(e) == IsInstance(e, "TimeoutError") \/ IsInstance(e, "ClientError")

\* "except Exception" (lines 165 and 211): what the handlers of extract_text
\* catch at all; anything else leaves the call
Caught(e) == IsInstance(e, "Exception")

\* the except clauses of extract_text, lines 193-217
HandleException(e, timeout, url) ==
    IF IsInstance(e, "TimeoutError")
    THEN Failure(m_timed_out \o DecString(timeout) \o m_seconds, url)
    ELSE IF IsInstance(e, "ClientConnectorError") THEN Failure(m_connection \o e.detail, url)
    ELSE IF IsInstance(e, "ClientError") THEN Failure(m_network \o e.detail, url)
    ELSE Failure(m_unexpected \o e.detail, url)

\* the except clause around the body read, lines 165-170
HandleReadException(e, url) == Failure(m_read_error \o e.detail, url)

(***************************************************************************)
(* The extractor as a state machine.  extract_text is a coroutine on one   *)
(* asyncio event loop: a call runs without interruption from one await to  *)
(* the next, and `running` names the call that holds the loop.             *)
(***************************************************************************)
NumCalls == 2
MaxTime == 2
MaxChunk == 2

Calls == 1..NumCalls

\* the calls of close
NumClosers == 2
Closers == 1..NumClosers

\* all non-empty sequences over S of length at most n
SeqsUpTo(S, n) == UNION {[1..k -> S] : k \in 1..n}

u_example == <<"h","t","t","p","s",":","/","/","e","x","a","m","p","l","e",".","c","o","m">>
h_html == <<"t","e","x","t","/","h","t","m","l">>
h_html_upper == <<"T","e","x","t","/","H","T","M","L",";"," ","c","h","a","r","s","e","t","=","U","T","F","-","8">>
h_html_latin1 == <<"t","e","x","t","/","h","t","m","l",";"," ","c","h","a","r","s","e","t","=","l","a","t","i","n","-","1">>
h_plain == <<"t","e","x","t","/","p","l","a","i","n">>
h_plain_bogus == <<"t","e","x","t","/","p","l","a","i","n",";"," ","c","h","a","r","s","e","t","=","b","o","g","u","s">>
h_json == <<"a","p","p","l","i","c","a","t","i","o","n","/","j","s","o","n">>
h_json_upper == <<"A","p","p","l","i","c","a","t","i","o","n","/","J","S","O","N">>
x_title == <<" ","T","e","s","t"," ","P","a","g","e"," ">>
x_short == <<"H","e","l","l","o"," ","W","o","r","l","d">>
x_long == <<"T","h","e"," ","q","u","i","c","k"," ","b","r","o","w","n"," ","f","o","x"," ","j","u","m","p","s"," ","o","v","e","r"," ","t","h","e"," ","l","a","z","y"," ","d","o","g"," ","a","g","a","i","n"," ","t","o","d","a","y",".">>
x_lines == <<" "," ","M","a","i","n"," ","H","e","a","d","i","n","g"," ","\n","\n","\n"," ","p","a","r","a","g","r","a","p","h"," ">>
x_blank == <<" ","\n"," ">>
d_refused == <<"C","a","n","n","o","t"," ","c","o","n","n","e","c","t"," ","t","o"," ","h","o","s","t"," ","e","x","a","m","p","l","e",".","c","o","m",":","4","4","3">>
d_disconnected == <<"S","e","r","v","e","r"," ","d","i","s","c","o","n","n","e","c","t","e","d">>
d_payload == <<"R","e","s","p","o","n","s","e"," ","p","a","y","l","o","a","d"," ","i","s"," ","n","o","t"," ","c","o","m","p","l","e","t","e","d">>
d_operand == <<"u","n","s","u","p","p","o","r","t","e","d"," ","o","p","e","r","a","n","d"," ","t","y","p","e","(","s",")"," ","f","o","r"," ","+",":"," ","'","N","o","n","e","T","y","p","e","'"," ","a","n","d"," ","'","i","n","t","'">>
d_closed == <<"S","e","s","s","i","o","n"," ","i","s"," ","c","l","o","s","e","d">>

\* texts of exactly 50 and of 51 characters between blanks
x_at_threshold == <<" ">> \o [i \in 1..MinHeuristicLength |-> "x"] \o <<" ">>
x_above_threshold == <<" ">> \o [i \in 1..(MinHeuristicLength + 1) |-> "x"] \o <<" ">>

Html(soup_raises, title_text, trafilatura_raises, trafilatura, main_text) ==
    [soup_raises |-> soup_raises, title_text |-> title_text,
     trafilatura_raises |-> trafilatura_raises, trafilatura |-> trafilatura,
     main_text |-> main_text]

\* What the network and the HTML libraries may answer.  FullEnv is every case
\* of the pipeline; CoarseEnv is one case of each kind of outcome, for the
\* runs that interleave several calls.
FullEnv ==
    [urls |-> {u_example},
     timeouts |-> {1, 10},
     statuses |-> {101, 200, 399, 400, 403, 404, 429, 500},
     headers |-> {None, Some(h_html), Some(h_html_upper), Some(h_html_latin1),
                  Some(h_plain), Some(h_plain_bogus), Some(h_json), Some(h_json_upper)},
     content_lengths |-> {None, Some(MaxContentLength + 1)},
     chunks |-> SeqsUpTo({"a", " ", InvalidByte}, MaxChunk),
     htmls |-> {Html(FALSE, Some(x_title), FALSE, Some(x_long), Some(x_lines)),
                Html(FALSE, Some(x_title), FALSE, Some(x_short), Some(x_lines)),
                Html(FALSE, None, FALSE, None, Some(x_short)),
                Html(FALSE, Some(x_title), FALSE, None, Some(x_blank)),
                Html(FALSE, Some(x_title), FALSE, Some(<<>>), None),
                Html(TRUE, None, FALSE, Some(x_long), None),
                Html(TRUE, None, FALSE, None, None),
                Html(FALSE, Some(x_title), TRUE, None, Some(x_lines)),
                Html(FALSE, None, FALSE, Some(x_at_threshold), Some(x_short)),
                Html(FALSE, None, FALSE, Some(x_above_threshold), Some(x_short))},
     request_errors |-> {Exc("TimeoutError", <<>>),
                         Exc("ServerTimeoutError", <<>>),
                         Exc("ClientConnectorError", d_refused),
                         Exc("ServerDisconnectedError", d_disconnected),
                         Exc("RuntimeError", d_closed)},
     session_errors |-> {Exc("TypeError", d_operand)},
     read_errors |-> {Exc("TimeoutError", <<>>), Exc("ClientPayloadError", d_payload)}]

CoarseEnv ==
    [urls |-> {u_example},
     timeouts |-> {10},
     statuses |-> {200, 404},
     headers |-> {Some(h_plain)},
     content_lengths |-> {None},
     chunks |-> {<<"a", "a">>},
     htmls |-> {Html(FALSE, None, FALSE, None, None)},
     request_errors |-> {Exc("TimeoutError", <<>>)},
     session_errors |-> {Exc("TypeError", d_operand)},
     read_errors |-> {Exc("ClientPayloadError", d_payload)}]

VARIABLES
    now,                \* time.time()
    request_times,      \* TextExtractor.request_times
    session,            \* TextExtractor.session: None or Some(session id)
    sessions_created,   \* how many ClientSession objects were constructed
    running,            \* the call that holds the event loop, None if none does
    pc,                 \* where each call stands
    ctx                 \* the locals of each call, and its result once returned

evars == <<now, request_times, session, sessions_created, running, pc, ctx>>

VARIABLES
    session_created,    \* TextExtractor._session_created
    closed,             \* the sessions whose close() was called
    close_pc            \* where each call of TextExtractor.close stands

lvars == <<session_created, closed, close_pc>>

VARIABLES
    environ,            \* os.environ: MCP_DEFAULT_TIMEOUT and MCP_MAX_TIMEOUT
    config,             \* MCPURLSearchServer.config
    text_extractor,     \* MCPURLSearchServer.text_extractor: None or Some(extractor)
    tool_pc,            \* where the tool call stands
    arguments,          \* its url and timeout, as handle_call_tool passes them on
    response            \* the text it answers, None while there is none

tvars == <<environ, config, text_extractor, tool_pc, arguments, response>>
vars == <<vvars, evars, lvars, tvars>>

\* the locals of a call; content_length is the Content-Length the response
\* declares, html what the HTML libraries made of the content when they were
\* asked; requested and created record that the call issued its
\* HTTP request and that it constructed the session, used the session it sent
\* the request on, conn what became of the connection of its response, raised
\* the exception that ended its fetch, extracted what _extract_text_content gave
IdleCtx ==
    [url |-> <<>>, timeout |-> 0, status |-> 0, header |-> None,
     content_bytes |-> <<>>, requested |-> FALSE, created |-> FALSE,
     content_length |-> None, html |-> None,
     used |-> None, conn |-> "none", raised |-> None, extracted |-> None,
     result |-> None]

EInit ==
    /\ now = 0
    /\ request_times = <<>>
    /\ session = None
    /\ sessions_created = 0
    /\ running = None
    /\ pc = [p \in Calls |-> "idle"]
    /\ ctx = [p \in Calls |-> IdleCtx]

\* return result: the call is over and the loop is free
Return(p, c, result) ==
    /\ pc' = [pc EXCEPT ![p] = "done"]
    /\ ctx' = [ctx EXCEPT ![p] = [c EXCEPT !.result = Some(result)]]
    /\ running' = None

\* an exception leaves extract_text: the call is over without a result
Raise(p, c) ==
    /\ pc' = [pc EXCEPT ![p] = "raised"]
    /\ ctx' = [ctx EXCEPT ![p] = c]
    /\ running' = None

\* extract_text lines 69-75 with _check_rate_limit: purge, then admit or deny
CheckRateLimit(p, env) ==
    /\ pc[p] \in {"idle", "done"}
    /\ running = None
    /\ \E url \in env.urls, timeout \in env.timeouts :
        LET c == [IdleCtx EXCEPT !.url = url, !.timeout = timeout]
            kept == PurgeOld(request_times, now)
        IN  /\ request_times' = kept
            /\ IF UnderLimit(kept)
               THEN /\ pc' = [pc EXCEPT ![p] = "admitted"]
                    /\ ctx' = [ctx EXCEPT ![p] = c]
                    /\ running' = RunningAfterCheck(p)
               ELSE Return(p, c, Failure(m_rate_limit, url))
    /\ UNCHANGED <<now, session, sessions_created, vvars, lvars, tvars>>

\* line 78
RecordRequestTime(p) ==
    /\ pc[p] = "admitted"
    /\ running = RunningAfterCheck(p)
    /\ request_times' = RecordRequest(request_times, now)
    /\ pc' = [pc EXCEPT ![p] = "recorded"]
    /\ running' = Some(p)
    /\ UNCHANGED <<now, session, sessions_created, ctx, vvars, lvars, tvars>>

\* mutant of NeedsSession: a session is constructed for every request
NeedsSession_always(s) == TRUE

\* _ensure_session line 41: if self.session is None
NeedsSession(s) == s = None

\* what session.get accepts: aiohttp raises InvalidURL for a URL without an
\* http(s) scheme and host, before any network I/O
HasHttpScheme(url) ==
    StartsWith(Lower(url), s_http_pfx) \/ StartsWith(Lower(url), s_https_pfx)

\* mutant of ExitResponse: the response is not used as a context manager
ExitResponse_leak(conn, eof) == conn

\* line 93, the end of "async with ... as response": the response is released,
\* its connection goes back to the pool if the body was read to its end and is
\* closed otherwise
ExitResponse(conn, eof) ==
    IF conn = "held" THEN (IF eof THEN "released" ELSE "discarded") ELSE conn

\* a return from inside the "async with" block
ReturnInWith(p, c, eof, result) ==
    Return(p, [c EXCEPT !.conn = ExitResponse(@, eof)], result)

\* lines 80-93 with _ensure_session: create the session if there is none, issue
\* the GET and wait for the response
SendRequest(p) ==
    /\ pc[p] = "recorded"
    /\ running = Some(p)
    /\ IF NeedsSession(session)
       THEN /\ session' = Some(sessions_created + 1)
            /\ sessions_created' = sessions_created + 1
            /\ session_created' = TRUE
       ELSE UNCHANGED <<session, sessions_created, session_created>>
    /\ LET c == [ctx[p] EXCEPT !.requested = TRUE, !.created = NeedsSession(session),
                               !.used = session']
       IN  IF session'[1] \in closed
           THEN LET e == Exc("RuntimeError", d_closed)
                IN  Return(p, [c EXCEPT !.raised = Some(e)],
                           HandleException(e, c.timeout, c.url))
           ELSE IF ~HasHttpScheme(c.url)
           THEN LET e == Exc("InvalidURL", c.url)
                IN  Return(p, [c EXCEPT !.raised = Some(e)],
                           HandleException(e, c.timeout, c.url))
           ELSE /\ ctx' = [ctx EXCEPT ![p] = c]
                /\ pc' = [pc EXCEPT ![p] = "await_response"]
                /\ running' = None
    /\ UNCHANGED <<now, request_times, vvars, closed, close_pc, tvars>>

\* _ensure_session raises (lines 42-53, inside the try of line 80)
SessionFails(p, env) ==
    /\ pc[p] = "recorded"
    /\ running = Some(p)
    /\ NeedsSession(session)
    /\ \E e \in env.session_errors :
        LET c == [ctx[p] EXCEPT !.raised = Some(e)]
        IN  IF Caught(e)
            THEN Return(p, c, HandleException(e, c.timeout, c.url))
            ELSE Raise(p, c)
    /\ UNCHANGED <<now, request_times, session, sessions_created, vvars, lvars, tvars>>

\* lines 93-135: the response head arrives; classify the status, then the
\* content type, then start reading
ReceiveResponse(p, env) ==
    /\ pc[p] = "await_response"
    /\ running = None
    /\ \E status_code \in env.statuses, header \in env.headers,
          content_length \in env.content_lengths :
        LET c == [ctx[p] EXCEPT !.status = status_code, !.header = header,
                                !.content_length = content_length, !.conn = "held"]
            content_type == ContentTypeOf(header)
        IN  IF StatusError(status_code) # None
            THEN ReturnInWith(p, c, FALSE,
                              StatusFailure(StatusError(status_code)[1], status_code, c.url))
            ELSE IF ~is_supported_content_type(content_type)
            THEN ReturnInWith(p, c, FALSE,
                              ContentFailure(m_unsupported_type \o content_type,
                                             content_type, status_code, c.url))
            ELSE /\ pc' = [pc EXCEPT ![p] = "reading"]
                 /\ ctx' = [ctx EXCEPT ![p] = c]
                 /\ running' = None
    /\ UNCHANGED <<now, request_times, session, sessions_created, vvars, lvars, tvars>>

\* session.get raises: lines 193-217
RequestFails(p, env) ==
    /\ pc[p] = "await_response"
    /\ running = None
    /\ \E e \in env.request_errors :
        LET c == [ctx[p] EXCEPT !.raised = Some(e)]
        IN  IF Caught(e)
            THEN Return(p, c, HandleException(e, c.timeout, c.url))
            ELSE Raise(p, c)
    /\ UNCHANGED <<now, request_times, session, sessions_created, vvars, lvars, tvars>>

\* aiohttp delivers the body a Content-Length declares: never more bytes, and
\* the end of the body only when all of them have come (a body cut short
\* raises ClientPayloadError, see ReadFails)
MayDeliver(content_length, size) ==
    IF content_length = None THEN TRUE ELSE size <= content_length[1]
MayEnd(content_length, size) ==
    IF content_length = None THEN TRUE ELSE size = content_length[1]

\* mutant of BufferAfter: only the newest chunk is kept
BufferAfter_last(content_bytes, chunk) == chunk

\* line 143: content_bytes.extend(chunk)
BufferAfter(content_bytes, chunk) == content_bytes \o chunk

\* lines 142-151: one chunk of iter_any is appended, then the size is checked
ReadChunk(p, env) ==
    /\ pc[p] = "reading"
    /\ running = None
    /\ \E chunk \in env.chunks :
        LET c == [ctx[p] EXCEPT !.content_bytes = BufferAfter(@, chunk)]
        IN  /\ MayDeliver(c.content_length, Len(c.content_bytes))
            /\ IF Len(c.content_bytes) > MaxContentLength
               THEN ReturnInWith(p, c, FALSE,
                                 ContentFailure(TooLargeMessage, ContentTypeOf(c.header),
                                                c.status, c.url))
               ELSE /\ ctx' = [ctx EXCEPT ![p] = c]
                    /\ UNCHANGED <<pc, running>>
    /\ UNCHANGED <<now, request_times, session, sessions_created, vvars, lvars, tvars>>

\* the read raises (a timeout, a broken payload): lines 165-170
ReadFails(p, env) ==
    /\ pc[p] = "reading"
    /\ running = None
    /\ \E e \in env.read_errors :
        LET c == [ctx[p] EXCEPT !.raised = Some(e)]
        IN  IF Caught(e)
            THEN ReturnInWith(p, c, FALSE, HandleReadException(e, c.url))
            ELSE Raise(p, [c EXCEPT !.conn = ExitResponse(@, FALSE)])
    /\ UNCHANGED <<now, request_times, session, sessions_created, vvars, lvars, tvars>>

\* lines 173-191: no text is a failure, text is the success
ExtractAndReturn(p, c, content_type, extracted) ==
    IF NoText(extracted[1])
    THEN ReturnInWith(p, c, TRUE, ContentFailure(m_no_text, content_type, c.status, c.url))
    ELSE ReturnInWith(p, c, TRUE,
                      ExtractionResult(TRUE, extracted[1], extracted[2],
                                       Some(content_type), Some(c.status), None, c.url))

\* the body ends: decode (lines 153-164), extract and return (lines 172-191)
FinishRead(p, env) ==
    /\ pc[p] = "reading"
    /\ running = None
    /\ MayEnd(ctx[p].content_length, Len(ctx[p].content_bytes))
    /\ \E html \in env.htmls :
        LET c == ctx[p]
            content_type == ContentTypeOf(c.header)
            decoded == Decode(c.content_bytes, CharsetOf(c.header))
            extracted == extract_text_content(decoded.content, content_type, html)
        IN  IF decoded.error # None
            THEN ReturnInWith(p, c, TRUE,
                              ContentFailure(m_decode \o decoded.error[1], content_type,
                                             c.status, c.url))
            ELSE ExtractAndReturn(p, [c EXCEPT !.extracted = Some(extracted),
                                               !.html = HtmlAsked(content_type, html)],
                                  content_type, extracted)
    /\ UNCHANGED <<now, request_times, session, sessions_created, vvars, lvars, tvars>>

\* the clock advances
Tick ==
    /\ now < MaxTime
    /\ now' = now + 1
    /\ UNCHANGED <<request_times, session, sessions_created, running, pc, ctx, vvars, lvars, tvars>>

Step(p, env) ==
    \/ CheckRateLimit(p, env)
    \/ RecordRequestTime(p)
    \/ SendRequest(p)
    \/ SessionFails(p, env)
    \/ ReceiveResponse(p, env)
    \/ RequestFails(p, env)
    \/ ReadChunk(p, env)
    \/ ReadFails(p, env)
    \/ FinishRead(p, env)

\* no validate call is under way
VIdle ==
    /\ v_url = PyNone
    /\ v_format_ok = FALSE
    /\ v_result = None

\* TextExtractor.__init__ (line 34); no close is under way
LInit ==
    /\ session_created = FALSE
    /\ closed = {}
    /\ close_pc = [k \in Closers |-> "idle"]

(***************************************************************************)
(* config.py: Config                                                       *)
(***************************************************************************)
\* the field defaults of the dataclass (lines 14 and 17)
ClassDefaults == [default_timeout |-> 10, max_timeout |-> 60]

\* os.environ: a variable is unset (None) or holds a string
Environ(default_timeout, max_timeout) ==
    [MCP_DEFAULT_TIMEOUT |-> default_timeout, MCP_MAX_TIMEOUT |-> max_timeout]
NoEnviron == Environ(None, None)

\* int(s) of a string: blanks around an optional sign and decimal digits;
\* None stands for the ValueError
ParseInt(s) ==
    LET t == Strip(s)
        signed == t # <<>> /\ t[1] \in {"-", "+"}
        digits == IF signed THEN Tail(t) ELSE t
    IN  IF digits = <<>> \/ ~AllIn(digits, DigitChars) THEN None
        ELSE IF signed /\ t[1] = "-" THEN Some(0 - DecValue(digits))
        ELSE Some(DecValue(digits))

\* str(n)
IntString(n) == IF n < 0 THEN <<"-">> \o DecString(0 - n) ELSE DecString(n)

\* int(os.getenv(name, field)): the field when the variable is unset
GetEnvInt(value, field) == IF value = None THEN Some(field) ELSE ParseInt(value[1])

\* lines 48-52: default_timeout is capped at max_timeout, then raised to 1
ClampDefault(default_timeout, max_timeout) ==
    LET capped == IF default_timeout > max_timeout THEN max_timeout ELSE default_timeout
    IN  IF capped < 1 THEN 1 ELSE capped

\* Config.__post_init__ (lines 38-52) on the two timeouts: the Config, or None
\* when int() raises
post_init(fields, env) ==
    LET default_timeout == GetEnvInt(env.MCP_DEFAULT_TIMEOUT, fields.default_timeout)
        max_timeout == GetEnvInt(env.MCP_MAX_TIMEOUT, fields.max_timeout)
    IN  IF default_timeout = None \/ max_timeout = None THEN None
        ELSE Some([default_timeout |-> ClampDefault(default_timeout[1], max_timeout[1]),
                   max_timeout |-> max_timeout[1]])

\* MCPURLSearchServer.__init__ with the default Config; no tool call is under way
NoArguments == [url |-> PyNone, timeout |-> 0]
TIdle ==
    /\ environ = NoEnviron
    /\ config = post_init(ClassDefaults, NoEnviron)[1]
    /\ text_extractor = None
    /\ tool_pc = "idle"
    /\ arguments = NoArguments
    /\ response = None

\* Spec: NumCalls calls of extract_text interleave on one extractor
Init == VIdle /\ EInit /\ LInit /\ TIdle
Next == (\E p \in Calls : Step(p, CoarseEnv)) \/ Tick
Spec == Init /\ [][Next]_vars

\* SpecFetch: one caller, one call after the other, every outcome of a fetch
FetchNext == Step(1, FullEnv)
SpecFetch == Init /\ [][FetchNext]_vars

\* SpecValidate: one call of validate on each input
ValidateInit == VInit /\ EInit /\ LInit /\ TIdle
ValidateNext == ValidateCall /\ UNCHANGED <<evars, lvars, tvars>>
SpecValidate == ValidateInit /\ [][ValidateNext]_vars

(***************************************************************************)
(* TextExtractor.close (lines 327-339; the definition of lines 304-316 is  *)
(* the same text and is replaced by it)                                    *)
(***************************************************************************)
d_loop_closed == <<"E","v","e","n","t"," ","l","o","o","p"," ","i","s"," ","c","l","o","s","e","d">>

\* what session.close() may raise
close_errors == {Exc("RuntimeError", d_loop_closed)}

\* line 329: if self.session and self._session_created
ShouldClose(s, created) == s # None /\ created

\* mutant of SessionAfterClose: the finally clause does not drop the session
SessionAfterClose_kept(s) == s

\* line 338: self.session = None
SessionAfterClose(s) == None

\* lines 329-334: nothing to close, or session.close() is called, which marks
\* the session closed at once, and the call sleeps
CloseStart(k) ==
    /\ close_pc[k] = "idle"
    /\ running = None
    /\ IF ShouldClose(session, session_created)
       THEN /\ closed' = closed \cup {session[1]}
            /\ close_pc' = [close_pc EXCEPT ![k] = "closing"]
       ELSE /\ close_pc' = [close_pc EXCEPT ![k] = "done"]
            /\ UNCHANGED closed
    /\ UNCHANGED <<session_created, vvars, evars, tvars>>

\* lines 335-339: session.close() raises; the handler logs and the finally
\* clause drops the session
CloseFails(k) ==
    /\ close_pc[k] = "idle"
    /\ running = None
    /\ ShouldClose(session, session_created)
    /\ \E e \in close_errors :
        close_pc' = [close_pc EXCEPT ![k] = IF Caught(e) THEN "done" ELSE "raised"]
    /\ session' = SessionAfterClose(session)
    /\ session_created' = FALSE
    /\ UNCHANGED <<closed, vvars, now, request_times, sessions_created, running, pc, ctx,
                   tvars>>

\* lines 337-339: the sleep is over; the finally clause drops the session
CloseFinish(k) ==
    /\ close_pc[k] = "closing"
    /\ running = None
    /\ session' = SessionAfterClose(session)
    /\ session_created' = FALSE
    /\ close_pc' = [close_pc EXCEPT ![k] = "done"]
    /\ UNCHANGED <<closed, vvars, now, request_times, sessions_created, running, pc, ctx,
                   tvars>>

\* SpecLifecycle: one caller of extract_text, call after call, and calls of
\* close on the same extractor
LifeNext ==
    \/ Step(1, CoarseEnv)
    \/ \E k \in Closers : CloseStart(k) \/ CloseFails(k) \/ CloseFinish(k)
SpecLifecycle == Init /\ [][LifeNext]_vars

(***************************************************************************)
(* Config(): the construction of a Config from the environment             *)
(***************************************************************************)
EnvTimeoutMax == 11
s_invalid == <<"i","n","v","a","l","i","d">>

\* what the environment may hold for a timeout: unset, an integer, no integer
EnvTimeouts ==
    {None, Some(s_invalid), Some(<<" ">> \o IntString(EnvTimeoutMax))}
        \cup {Some(IntString(n)) : n \in (0 - 1)..EnvTimeoutMax}

\* the dataclass fields are set; __post_init__ has not run yet
ConfigInit ==
    /\ VIdle /\ EInit /\ LInit
    /\ environ \in {Environ(d, mt) : d \in EnvTimeouts, mt \in EnvTimeouts}
    /\ config = ClassDefaults
    /\ text_extractor = None
    /\ tool_pc = "init"
    /\ arguments = NoArguments
    /\ response = None

\* __post_init__ runs: the Config is constructed, or int() raises
ConfigPostInit ==
    /\ tool_pc = "init"
    /\ IF post_init(config, environ) = None
       THEN tool_pc' = "init_raised" /\ UNCHANGED config
       ELSE tool_pc' = "idle" /\ config' = post_init(config, environ)[1]
    /\ UNCHANGED <<vvars, evars, lvars, environ, text_extractor, arguments, response>>

SpecConfig == ConfigInit /\ [][ConfigPostInit]_vars

(***************************************************************************)
(* The tool front end: handle_call_tool of MCPURLSearchServer              *)
(***************************************************************************)
r_url_required == <<"E","r","r","o","r",":"," ","U","R","L"," ","p","a","r","a","m","e","t","e","r"," ","i","s"," ","r","e","q","u","i","r","e","d">>
r_invalid_url == <<"E","r","r","o","r",":"," ","I","n","v","a","l","i","d"," ","U","R","L"," ","-"," ">>
r_content_from == <<"C","o","n","t","e","n","t"," ","f","r","o","m",":"," ">>
r_content_type == <<"C","o","n","t","e","n","t","-","T","y","p","e",":"," ">>
r_status_code == <<"S","t","a","t","u","s"," ","C","o","d","e",":"," ">>
r_title == <<"T","i","t","l","e",":"," ">>
r_content == <<"\n">> \o <<"-","-","-"," ","C","o","n","t","e","n","t"," ","-","-","-">> \o <<"\n">>
r_error_fetching == <<"E","r","r","o","r"," ","f","e","t","c","h","i","n","g"," ","c","o","n","t","e","n","t"," ","f","r","o","m"," ">>
r_unexpected == <<"U","n","e","x","p","e","c","t","e","d"," ","e","r","r","o","r",":"," ">>
u_bare == <<"e","x","a","m","p","l","e",".","c","o","m">>
u_ftp == <<"f","t","p",":","/","/","e","x","a","m","p","l","e",".","c","o","m">>
u_localhost == <<"h","t","t","p",":","/","/","l","o","c","a","l","h","o","s","t">>

\* what the callers send: url absent, empty, without scheme, well-formed,
\* of a blocked scheme, of a blocked host, not a string; timeout absent or given
ToolUrls ==
    {PyNone, PyStr(<<>>), PyStr(u_bare), PyStr(u_example), PyStr(u_ftp),
     PyStr(u_localhost), PyInt(5)}
ToolTimeouts == {None, Some(45), Some(61)}

\* MCP_MAX_TIMEOUT: Config.__post_init__ takes max_timeout from the environment
MaxTimeouts == {30, 60}

\* what the server and the network answer to the requests of a tool call
ToolEnv ==
    [urls |-> {u_example},
     timeouts |-> {10},
     statuses |-> {200, 404},
     headers |-> {Some(h_plain), Some(h_plain_bogus), Some(h_json)},
     content_lengths |-> {None},
     chunks |-> {<<"a">>, <<"a", "a", "a">>, <<" ">>},
     htmls |-> {Html(FALSE, None, FALSE, None, None)},
     request_errors |-> FullEnv.request_errors,
     session_errors |-> FullEnv.session_errors,
     read_errors |-> FullEnv.read_errors]

\* mutant of Proceeds: the verdict of the validator is ignored
Proceeds_always(validation_result) == TRUE

\* line 110: if not validation_result.is_valid: return
Proceeds(validation_result) == validation_result.is_valid

\* the timeout capped at max_timeout, which line 120 does not do
RequestTimeout_clamped(timeout, cfg) ==
    LET t == IF timeout = None THEN cfg.default_timeout ELSE timeout[1]
    IN  IF t > cfg.max_timeout THEN cfg.max_timeout ELSE t

\* lines 99 and 120: arguments.get("timeout", default_timeout), passed on as it is
RequestTimeout(timeout, cfg) ==
    IF timeout = None THEN cfg.default_timeout ELSE timeout[1]

\* the normalized URL of the verdict, which line 119 does not pass
RequestUrl_normalized(url, validation_result) == validation_result.normalized_url[1]

\* line 119: extract_text is called with url, the raw argument
RequestUrl(url, validation_result) == url.s

\* lines 124-142: the answer for a result of extract_text
ResponseFor(url, result) ==
    IF result.success
    THEN r_content_from \o url \o <<"\n">>
         \o r_content_type \o result.content_type[1] \o <<"\n">>
         \o r_status_code \o DecString(result.status_code[1]) \o <<"\n">>
         \o (IF result.title # None /\ result.title[1] # <<>>
             THEN r_title \o result.title[1] \o <<"\n">> ELSE <<>>)
         \o r_content \o result.text_content[1]
    ELSE r_error_fetching \o url \o <<":", " ">> \o result.error_message[1]

\* lines 98-117: the arguments are read and the URL is validated; a missing or
\* rejected URL is answered at once, otherwise the extractor is fetched
\* (created on first use) and extract_text is about to be called
HandleCallTool ==
    /\ tool_pc \in {"idle", "responded"}
    /\ pc[1] = "idle"
    /\ \E url \in ToolUrls, timeout \in ToolTimeouts, format_ok \in BOOLEAN :
        IF ~Truthy(url)
        THEN /\ response' = Some(r_url_required)
             /\ tool_pc' = "responded"
             /\ arguments' = NoArguments
             /\ UNCHANGED <<vvars, text_extractor, pc, ctx>>
        ELSE /\ v_url' = url
             /\ v_format_ok' = format_ok
             /\ v_result' = Some(validate(url, format_ok))
             /\ IF ~Proceeds(v_result'[1])
                THEN /\ response' = Some(r_invalid_url \o v_result'[1].error_message[1])
                     /\ tool_pc' = "responded"
                     /\ arguments' = NoArguments
                     /\ UNCHANGED <<text_extractor, pc, ctx>>
                ELSE /\ response' = None
                     /\ tool_pc' = "extracting"
                     /\ arguments' = [url |-> PyStr(RequestUrl(url, v_result'[1])),
                                      timeout |-> RequestTimeout(timeout, config)]
                     /\ text_extractor' = Some(1)
                     /\ UNCHANGED <<pc, ctx>>
    /\ UNCHANGED <<now, request_times, session, sessions_created, running, lvars, environ, config>>

\* lines 118-122: extract_text starts with the url and the timeout of the call
ToolExtract ==
    /\ tool_pc = "extracting"
    /\ pc[1] = "idle"
    /\ CheckRateLimit(1, [ToolEnv EXCEPT !.urls = {arguments.url.s},
                                         !.timeouts = {arguments.timeout}])

\* lines 124-149: extract_text has returned, or raised into "except Exception";
\* its frame is gone
ToolRespond ==
    /\ tool_pc = "extracting"
    /\ pc[1] \in {"done", "raised"}
    /\ response' = Some(IF pc[1] = "done"
                        THEN ResponseFor(arguments.url.s, ctx[1].result[1])
                        ELSE r_unexpected \o ctx[1].raised[1].detail)
    /\ tool_pc' = "responded"
    /\ pc' = [pc EXCEPT ![1] = "idle"]
    /\ ctx' = [ctx EXCEPT ![1] = IdleCtx]
    /\ UNCHANGED <<now, request_times, session, sessions_created, running>>
    /\ UNCHANGED <<vvars, lvars, environ, config, text_extractor, arguments>>

\* SpecTool: tool calls, one after the other, each validated and then fetched
ToolInit ==
    /\ VIdle /\ EInit /\ LInit
    /\ environ \in {Environ(None, Some(IntString(mt))) : mt \in MaxTimeouts}
    /\ config = post_init(ClassDefaults, environ)[1]
    /\ text_extractor = None
    /\ tool_pc = "idle"
    /\ arguments = NoArguments
    /\ response = None
ToolNext ==
    \/ HandleCallTool
    \/ ToolExtract
    \/ RecordRequestTime(1)
    \/ SendRequest(1)
    \/ SessionFails(1, ToolEnv)
    \/ ReceiveResponse(1, ToolEnv)
    \/ RequestFails(1, ToolEnv)
    \/ ReadChunk(1, ToolEnv)
    \/ ReadFails(1, ToolEnv)
    \/ FinishRead(1, ToolEnv)
    \/ ToolRespond
SpecTool == ToolInit /\ [][ToolNext]_vars

(***************************************************************************)
(* Properties of the extractor                                             *)
(***************************************************************************)
\* the recorded timestamps that lie inside the window at time t
InWindow(times, t) == {i \in DOMAIN times : t - times[i] < RateLimitWindow}
WindowPart(times, t) == SelectSeq(times, LAMBDA x : t - x < RateLimitWindow)
IsPrefix(s, t) == Len(s) <= Len(t) /\ SubSeq(t, 1, Len(s)) = s
IsSuffix(s, t) == Len(s) <= Len(t) /\ SubSeq(t, Len(t) - Len(s) + 1, Len(t)) = s

Returned(p) == pc[p] = "done"
ResultOf(p) == ctx[p].result[1]

\* steps of call p, told by what they change
StartsCall(p) == pc[p] \in {"idle", "done"} /\ <<pc'[p], ctx'[p]>> # <<pc[p], ctx[p]>>
IsAdmitted(p) == StartsCall(p) /\ pc'[p] = "admitted"
IsDenied(p) == StartsCall(p) /\ pc'[p] = "done"
Records(p) == pc[p] = "admitted" /\ pc'[p] = "recorded"
Sends(p) == pc[p] # "await_response" /\ pc'[p] = "await_response"
FetchEnds(p) == pc[p] \in {"await_response", "reading"} /\ pc'[p] = "done"

\* C3 (state part): between the rate-limit check of a call and its append no
\* other call runs, and the timestamps inside the window never exceed
\* rate_limit_requests.
C3_State ==
    /\ Cardinality(InWindow(request_times, now)) <= RateLimitRequests
    /\ \A p \in Calls : pc[p] = "admitted" => running = Some(p)
    /\ \A p, q \in Calls : (pc[p] = "admitted" /\ pc[q] = "admitted") => p = q

\* C3 (step part): no step loses a timestamp that is still inside the window,
\* and the append of an admitted call adds its timestamp to the sequence the
\* others left.
C3_Step ==
    /\ IsPrefix(WindowPart(request_times, now'), WindowPart(request_times', now'))
    /\ \A p \in Calls : Records(p) => request_times' = Append(request_times, now)

\* C3: however the calls interleave at their awaits, the read-purge-append of
\* one call is never interleaved with that of another: the window never holds
\* more than rate_limit_requests timestamps and no admitted timestamp is lost.
C3_RateLimiterAtomic == [](C3_State) /\ [][C3_Step]_vars

\* C3 witness: two calls are in flight at once and the window is full.
C3_Witness ==
    /\ pc[1] = "await_response"
    /\ pc[2] = "reading"
    /\ Cardinality(InWindow(request_times, now)) = RateLimitRequests

\* C4: with exactly rate_limit_requests timestamps recorded, all inside the
\* window, the next check denies; once the window has elapsed since all of them
\* the next check admits.
C4_DenyThenAdmit ==
    [][\A p \in Calls :
        LET full == /\ Len(request_times) = RateLimitRequests
                    /\ \A i \in DOMAIN request_times :
                         now - request_times[i] < RateLimitWindow
            elapsed == \A i \in DOMAIN request_times :
                         now - request_times[i] >= RateLimitWindow
        IN  /\ (full /\ StartsCall(p)) => IsDenied(p)
            /\ (elapsed /\ StartsCall(p)) => IsAdmitted(p)]_vars

\* C4 witness: a call was denied, the window then elapsed, and the next check
\* has purged every timestamp and admitted its call.
C4_Witness ==
    /\ now >= RateLimitWindow
    /\ request_times = <<>>
    /\ sessions_created = 1
    /\ pc[1] = "admitted"
    /\ Returned(2) /\ ResultOf(2).error_message = Some(m_rate_limit)

\* C5: an admitted call appends exactly one timestamp, before its request is
\* sent, and the end of its fetch (any outcome) leaves the sequence alone; a
\* denied call appends nothing.
C5_OneRecordPerAdmission ==
    [][/\ \A p \in Calls :
            /\ Records(p) =>
                /\ request_times' = Append(request_times, now)
                /\ ~ctx'[p].requested
            /\ Sends(p) => (pc[p] = "recorded" /\ ctx'[p].requested)
            /\ FetchEnds(p) => request_times' = request_times
            /\ IsDenied(p) => IsSuffix(request_times', request_times)
       /\ Len(request_times') > Len(request_times) =>
            /\ Len(request_times') = Len(request_times) + 1
            /\ \E p \in Calls : Records(p)]_vars

\* C5 witness: a call that was admitted has failed (its request timed out), its
\* timestamp is still recorded, and another call was denied.
C5_Witness ==
    /\ Returned(1) /\ ctx[1].requested /\ ~ResultOf(1).success
    /\ Len(request_times) = RateLimitRequests
    /\ Returned(2) /\ ~ctx[2].requested

\* C6: a call that the rate limiter denies returns success = FALSE with the
\* message "Rate limit exceeded. Please try again later.", and neither creates
\* a session nor issues a request.
C6_DeniedNoNetwork ==
    [][\A p \in Calls :
        (StartsCall(p) /\ Cardinality(InWindow(request_times, now)) >= RateLimitRequests) =>
            /\ pc'[p] = "done"
            /\ ~ctx'[p].result[1].success
            /\ ctx'[p].result[1].error_message =
                 Some(<<"R","a","t","e"," ","l","i","m","i","t"," ","e","x","c","e","e","d","e","d","."," ","P","l","e","a","s","e"," ","t","r","y"," ","a","g","a","i","n"," ","l","a","t","e","r",".">>)
            /\ ctx'[p].result[1].status_code = None
            /\ ~ctx'[p].requested /\ ~ctx'[p].created
            /\ session' = session /\ sessions_created' = sessions_created]_vars

\* C6 witness: a call was denied.
C6_Witness ==
    \E p \in Calls :
        /\ Returned(p) /\ ~ctx[p].requested
        /\ ResultOf(p).error_message # None
        /\ Len(request_times) = RateLimitRequests

(***************************************************************************)
(* Properties of one fetch                                                 *)
(***************************************************************************)
\* the response head of call p has arrived
GotResponse(p) == ctx[p].status # 0

\* C7: the body read aborts with the size message as soon as the accumulated
\* size exceeds max_content_length, and the buffer never holds more than
\* max_content_length bytes.
C7_BufferNeverExceedsLimit ==
    \A p \in Calls :
        /\ Len(ctx[p].content_bytes) <= MaxContentLength
        /\ (Returned(p) /\ Len(ctx[p].content_bytes) > MaxContentLength) =>
            /\ ~ResultOf(p).success
            /\ ResultOf(p).error_message = Some(TooLargeMessage)

\* C8: success implies a non-empty text and a status code in 200..399; failure
\* implies an error message.
C8_ResultInvariant ==
    \A p \in Calls : Returned(p) =>
        LET r == ResultOf(p)
        IN  /\ r.success =>
                /\ r.text_content # None /\ r.text_content[1] # <<>>
                /\ r.status_code # None /\ r.status_code[1] \in 200..399
            /\ ~r.success => (r.error_message # None /\ r.error_message[1] # <<>>)

\* C9: a response with status >= 400 always yields a failure that carries the
\* status code and the message of its class, whatever the content type, and no
\* body byte is read.
C9_StatusFirst ==
    \A p \in Calls : (Returned(p) /\ GotResponse(p) /\ ctx[p].status >= 400) =>
        LET r == ResultOf(p)
            s == ctx[p].status
        IN  /\ ~r.success
            /\ r.status_code = Some(s)
            /\ r.error_message =
                 Some(IF s = 404 THEN <<"P","a","g","e"," ","n","o","t"," ","f","o","u","n","d"," ","(","4","0","4",")">>
                      ELSE IF s = 403 THEN <<"A","c","c","e","s","s"," ","f","o","r","b","i","d","d","e","n"," ","(","4","0","3",")">>
                      ELSE IF s = 429 THEN <<"T","o","o"," ","m","a","n","y"," ","r","e","q","u","e","s","t","s"," ","(","4","2","9",")","."," ","P","l","e","a","s","e"," ","t","r","y"," ","a","g","a","i","n"," ","l","a","t","e","r",".">>
                      ELSE <<"H","T","T","P"," ","e","r","r","o","r"," ">> \o DecString(s))
            /\ ctx[p].content_bytes = <<>>

\* C9 witness: a 404 with an unsupported content type is reported as a 404.
C9_Witness ==
    /\ Returned(1)
    /\ ctx[1].status = 404 /\ ctx[1].header = Some(h_json)
    /\ ResultOf(1).status_code = Some(404)

\* C10: a response below 400 whose lower-cased content type holds none of the
\* supported substrings (a missing header counts as the empty string) yields
\* "Unsupported content type: <content-type>" with the status code and the
\* content type, and no body byte is read.
C10_UnsupportedContentType ==
    \A p \in Calls : (Returned(p) /\ GotResponse(p) /\ ctx[p].status < 400) =>
        LET r == ResultOf(p)
            ct == Lower(IF ctx[p].header = None THEN <<>> ELSE ctx[p].header[1])
            supported == {<<"t","e","x","t","/","h","t","m","l">>, <<"t","e","x","t","/","p","l","a","i","n">>, <<"a","p","p","l","i","c","a","t","i","o","n","/","x","h","t","m","l","+","x","m","l">>, <<"t","e","x","t","/","x","m","l">>, <<"a","p","p","l","i","c","a","t","i","o","n","/","x","m","l">>}
        IN  (\A t \in supported : ~Contains(ct, t)) =>
                /\ ~r.success
                /\ r.error_message = Some(<<"U","n","s","u","p","p","o","r","t","e","d"," ","c","o","n","t","e","n","t"," ","t","y","p","e",":"," ">> \o ct)
                /\ r.status_code = Some(ctx[p].status)
                /\ r.content_type = Some(ct)
                /\ ctx[p].content_bytes = <<>>

\* C10 witness: a 200 without any content-type header is rejected.
C10_Witness ==
    /\ Returned(1)
    /\ ctx[1].status = 200 /\ ctx[1].header = None
    /\ ResultOf(1).content_type = Some(<<>>)

\* the exception that ended the fetch of call p, if one did
RaisedIn(p) == ctx[p].raised[1]
IsTimeout(e) == e.cls \in {"TimeoutError", "ServerTimeoutError"}

\* C11: a timeout at any step of the fetch (the request, the headers, a body
\* chunk) makes the call return success = FALSE with "Request timed out after
\* <n> seconds", n being the timeout of the call.
C11_TimeoutAnywhere ==
    \A p \in Calls : (Returned(p) /\ ctx[p].raised # None /\ IsTimeout(RaisedIn(p))) =>
        /\ ~ResultOf(p).success
        /\ ResultOf(p).error_message =
             Some(<<"R","e","q","u","e","s","t"," ","t","i","m","e","d"," ","o","u","t"," ","a","f","t","e","r"," ">> \o DecString(ctx[p].timeout)
                  \o <<" ","s","e","c","o","n","d","s">>)

\* C11 (the part that holds): a timeout before the response head arrives is
\* reported with that message.
C11_TimeoutBeforeResponse ==
    \A p \in Calls :
        (Returned(p) /\ ctx[p].raised # None /\ IsTimeout(RaisedIn(p)) /\ ~GotResponse(p)) =>
            ResultOf(p).error_message =
                Some(m_timed_out \o DecString(ctx[p].timeout) \o m_seconds)

\* C12: a failure that is no timeout is reported by its kind: a failure to
\* connect as "Connection error: <detail>", any other transport failure as
\* "Network error: <detail>", anything else as "Unexpected error: <detail>".
C12_FailureByKind ==
    \A p \in Calls : (Returned(p) /\ ctx[p].raised # None /\ ~IsTimeout(RaisedIn(p))) =>
        LET e == RaisedIn(p)
            connection == e.cls = "ClientConnectorError"
            transport == e.cls \in {"ClientConnectorError", "ServerDisconnectedError",
                                    "ClientPayloadError", "InvalidURL"}
        IN  /\ ~ResultOf(p).success
            /\ ResultOf(p).error_message =
                 Some((IF connection THEN <<"C","o","n","n","e","c","t","i","o","n"," ","e","r","r","o","r",":"," ">>
                       ELSE IF transport THEN <<"N","e","t","w","o","r","k"," ","e","r","r","o","r",":"," ">>
                       ELSE <<"U","n","e","x","p","e","c","t","e","d"," ","e","r","r","o","r",":"," ">>) \o e.detail)

\* C12 (the part that holds): before the response head arrives the failure is
\* reported by its kind.
C12_FailureByKindBeforeResponse ==
    \A p \in Calls :
        (Returned(p) /\ ctx[p].raised # None /\ ~IsTimeout(RaisedIn(p)) /\ ~GotResponse(p)) =>
            ResultOf(p).error_message =
                Some((IF RaisedIn(p).cls = "ClientConnectorError" THEN m_connection
                      ELSE IF IsInstance(RaisedIn(p), "ClientError") THEN m_network
                      ELSE m_unexpected) \o RaisedIn(p).detail)

(***************************************************************************)
(* Properties of the tool call                                             *)
(***************************************************************************)
\* C13: no call of extract_text or validate raises: whatever the session
\* construction, the request, the headers, the body read, the decoding and the
\* extraction do, extract_text ends with a result and validate with a verdict,
\* and a failure carries success = FALSE / is_valid = FALSE and a message.
C13_NothingEscapes ==
    /\ \A p \in Calls : pc[p] # "raised"
    /\ \A p \in Calls : Returned(p) =>
        /\ ctx[p].result # None
        /\ ctx[p].raised # None =>
            (~ResultOf(p).success /\ ResultOf(p).error_message # None
             /\ ResultOf(p).error_message[1] # <<>>)
        /\ ~ResultOf(p).success => ResultOf(p).error_message # None
    /\ v_result # None =>
        (~v_result[1].is_valid =>
            (v_result[1].error_message # None /\ v_result[1].error_message[1] # <<>>))

\* C13 witness: an exception nobody anticipated (the session could not be
\* constructed) came back as a failed result, after a validation that passed.
C13_Witness ==
    /\ Returned(1)
    /\ ctx[1].raised # None /\ RaisedIn(1).cls = "TypeError"
    /\ ~ResultOf(1).success
    /\ v_result # None /\ v_result[1].is_valid

\* C14: an admitted request whose response has a 2xx/3xx status and a supported
\* content type, whose body stays within max_content_length and decodes,
\* returns success = TRUE with the extracted text, the title, the content type
\* and the status code when the extraction gave text, and the failure "No
\* readable text content found" when it gave none.
C14_SuccessCarriesExtraction ==
    \A p \in Calls :
        LET c == ctx[p]
            ct == Lower(IF c.header = None THEN <<>> ELSE c.header[1])
            supported == {<<"t","e","x","t","/","h","t","m","l">>, <<"t","e","x","t","/","p","l","a","i","n">>, <<"a","p","p","l","i","c","a","t","i","o","n","/","x","h","t","m","l","+","x","m","l">>, <<"t","e","x","t","/","x","m","l">>, <<"a","p","p","l","i","c","a","t","i","o","n","/","x","m","l">>}
        IN  (/\ Returned(p) /\ c.status \in 200..399
             /\ \E t \in supported : Contains(ct, t)
             /\ Len(c.content_bytes) <= MaxContentLength
             /\ c.raised = None
             /\ c.extracted # None) =>
                LET text == c.extracted[1][1]
                    title == c.extracted[1][2]
                IN  IF text # None /\ text[1] # <<>>
                    THEN /\ ResultOf(p).success
                         /\ ResultOf(p).text_content = text
                         /\ ResultOf(p).title = title
                         /\ ResultOf(p).content_type = Some(ct)
                         /\ ResultOf(p).status_code = Some(c.status)
                         /\ ResultOf(p).error_message = None
                    ELSE /\ ~ResultOf(p).success
                         /\ ResultOf(p).error_message =
                              Some(<<"N","o"," ","r","e","a","d","a","b","l","e"," ","t","e","x","t"," ","c","o","n","t","e","n","t"," ","f","o","u","n","d">>)

\* C14 witness: a page with a title was fetched and its text returned.
C14_Witness ==
    /\ Returned(1) /\ ResultOf(1).success
    /\ ResultOf(1).title # None
    /\ ctx[1].extracted # None /\ ResultOf(1).text_content = ctx[1].extracted[1][1]

\* C14 witness of the other case: the extraction gave nothing.
C14_WitnessNoText ==
    /\ Returned(1) /\ ~ResultOf(1).success
    /\ ctx[1].extracted # None /\ ctx[1].extracted[1][1] = None

\* steps of close call k that end the call
CloseEnds(k) == close_pc[k] \in {"idle", "closing"} /\ close_pc'[k] \in {"done", "raised"}

\* C15: close is idempotent and safe in every lifecycle state: whether no
\* request was made yet, a session is open, or another close came before, a
\* call of close never raises and when it returns the extractor holds no
\* session.
C15_CloseIdempotent ==
    [][\A k \in Closers :
        CloseEnds(k) => /\ close_pc'[k] = "done"
                        /\ session' = None
                        /\ session_created' = FALSE]_vars

\* a session was created and closed and two calls of close have returned
C15_Witness ==
    /\ \A k \in Closers : close_pc[k] = "done"
    /\ sessions_created = 1
    /\ closed = {1}
    /\ session = None

\* close was called twice on an extractor that never made a request
C15_WitnessNeverUsed ==
    /\ \A k \in Closers : close_pc[k] = "done"
    /\ sessions_created = 0
    /\ request_times = <<>>
    /\ session = None

\* call p passes _ensure_session and issues its request
PassesEnsure(p) == pc[p] = "recorded" /\ ctx'[p].requested

C16_State ==
    /\ sessions_created <= 1
    /\ session = None <=> sessions_created = 0
    /\ \A p \in Calls : ctx[p].used # None => ctx[p].used = Some(1) /\ session = Some(1)

C16_Step ==
    /\ session' # session =>
        /\ session = None
        /\ \E p \in Calls : PassesEnsure(p) /\ ctx'[p].created
    /\ \A p \in Calls :
        /\ IsDenied(p) => session' = session
        /\ PassesEnsure(p) => /\ session' # None
                              /\ ctx'[p].used = session'
                              /\ ctx'[p].created <=> session = None

\* C16: the HTTP session is created lazily and at most once while nothing
\* closes it: there is none after construction or after a denied call, the
\* first call that gets through _ensure_session creates it, and however the
\* calls interleave one session is created and every request uses it.
C16_LazySingleSession == [](C16_State) /\ [][C16_Step]_vars

\* two calls raced on first use and both wait on the one session
C16_Witness ==
    /\ \A p \in Calls : pc[p] = "await_response" /\ ctx[p].used = Some(1)
    /\ \E p \in Calls : ~ctx[p].created
    /\ sessions_created = 1

\* call p has stopped, by a return or by an exception that leaves it
Left(p) == pc[p] \in {"done", "raised"}

\* C17: every connection a call acquired for its request is released or
\* discarded by the time the call is left, on every exit path: success, HTTP
\* status failure, unsupported content type, oversize abort, read error and a
\* timeout during the body read.
C17_ConnectionReleased ==
    \A p \in Calls :
        Left(p) => /\ ctx[p].conn # "held"
                   /\ GotResponse(p) => ctx[p].conn \in {"released", "discarded"}

\* a timeout interrupted the body read and the connection was discarded
C17_Witness ==
    /\ Returned(1)
    /\ GotResponse(1)
    /\ ctx[1].raised # None
    /\ IsTimeout(RaisedIn(1))
    /\ ctx[1].conn = "discarded"

\* a body read to its end gave the connection back to the pool
C17_WitnessSuccess ==
    /\ Returned(1)
    /\ ResultOf(1).success
    /\ ctx[1].conn = "released"

\* C18: whenever the tool call goes on to extract_text after a validation that
\* passed, the URL it passes is the normalized_url of the verdict (for the
\* input example.com, https://example.com), not the raw argument.
C18_PassesNormalizedUrl ==
    tool_pc = "extracting" =>
        arguments.url.s = RequestUrl_normalized(v_url, v_result[1])

\* the input example.com passed validation and was requested as it came
C18_RawUrlRequested ==
    /\ tool_pc = "extracting"
    /\ v_result[1].is_valid
    /\ v_result[1].normalized_url = Some(u_example)
    /\ ctx[1].requested
    /\ ctx[1].url = u_bare

\* C19: whatever timeout the caller supplies, the timeout applied to the HTTP
\* request is at most config.max_timeout.
C19_TimeoutClamped ==
    ctx[1].requested => ctx[1].timeout <= config.max_timeout

\* a request went out with a timeout above max_timeout
C19_TimeoutAboveMax ==
    /\ ctx[1].requested
    /\ pc[1] = "await_response"
    /\ ctx[1].timeout > config.max_timeout

\* steps of the tool call before extract_text: only handle_call_tool runs
BeforeExtract == tool_pc \in {"idle", "responded"}

C20_Step ==
    BeforeExtract =>
        /\ tool_pc' = "extracting" => v_result'[1].is_valid
        /\ tool_pc' = "responded" =>
            /\ UNCHANGED <<evars, lvars, text_extractor>>
            /\ response' # Some(r_url_required) =>
                /\ ~v_result'[1].is_valid
                /\ response' = Some(r_invalid_url \o v_result'[1].error_message[1])

\* C20: when validate rejects the URL of a tool call the call stops there: the
\* answer is "Error: Invalid URL - " and the message of the verdict,
\* extract_text is not called, no extractor and no session are created, no
\* timestamp is recorded and no request is made.
C20_RejectionStopsCall ==
    /\ [](tool_pc = "extracting" => (v_result # None /\ v_result[1].is_valid))
    /\ [][C20_Step]_vars

\* a first tool call was rejected and nothing else happened
C20_Witness ==
    /\ tool_pc = "responded"
    /\ v_result # None /\ ~v_result[1].is_valid
    /\ response = Some(r_invalid_url \o v_result[1].error_message[1])
    /\ text_extractor = None
    /\ session = None
    /\ request_times = <<>>

(***************************************************************************)
(* Properties of the validator: inputs, results, normalization, length     *)
(***************************************************************************)
\* C21: validate answers "URL must be a string" to every input that is no
\* string and "URL cannot be empty" to the empty string, the test for a string
\* being decided first.
C21_NonStringFirst ==
    v_done =>
        /\ ~v_is_str => v_result = Some(Invalid(m_not_string))
        /\ v_url = PyStr(<<>>) => v_result = Some(Invalid(m_empty))

\* what validate does instead (lines 43-54): the test "not url" is decided
\* first, so None and 0 are answered as empty
C21_EmptyFirst ==
    v_done =>
        /\ ~Truthy(v_url) => v_result = Some(Invalid(m_empty))
        /\ (Truthy(v_url) /\ ~v_is_str) => v_result = Some(Invalid(m_not_string))

\* None was answered with "URL cannot be empty"
C21_NoneIsEmpty ==
    /\ v_done
    /\ v_url = PyNone
    /\ v_result = Some(Invalid(m_empty))

\* C22: every ValidationResult of validate has exactly one of normalized_url
\* and error_message: is_valid iff normalized_url is present and error_message
\* absent, not is_valid iff error_message is present and normalized_url absent.
C22_ExactlyOne ==
    v_done =>
        LET r == v_result[1]
        IN  /\ r.is_valid <=> (r.normalized_url # None /\ r.error_message = None)
            /\ ~r.is_valid <=> (r.error_message # None /\ r.normalized_url = None)

\* one call ended valid with a URL and no message
C22_Witness ==
    /\ v_done
    /\ v_result[1].is_valid
    /\ v_result[1].normalized_url = Some(u_example)
    /\ v_result[1].error_message = None

\* one call ended invalid with a message and no URL
C22_WitnessInvalid ==
    /\ v_done
    /\ ~v_result[1].is_valid
    /\ v_result[1].error_message = Some(m_format)
    /\ v_result[1].normalized_url = None

\* the normalization as the specification words it
Normalized(s) ==
    LET t == Strip(s)
    IN  IF Contains(t, s_sep) THEN t ELSE s_https_pfx \o t
IsSchemeRejection(r) ==
    /\ r.error_message # None
    /\ \/ StartsWith(r.error_message[1], m_blocked_scheme)
       \/ StartsWith(r.error_message[1], m_unsupported_scheme)

\* C23: the URL is normalized before every later check: surrounding whitespace
\* is trimmed, "https://" is prepended when the trimmed string has no "://",
\* and a string with "://" stays as it is.  A valid result carries exactly that
\* string, the verdict is the verdict on that string, and a string without
\* "://" is never rejected for its scheme.
C23_Normalization ==
    (v_done /\ v_is_str /\ Truthy(v_url)) =>
        LET r == v_result[1]
            n == Normalized(v_url.s)
        IN  /\ r.is_valid => r.normalized_url = Some(n)
            /\ r = validate(PyStr(n), v_format_ok)
            /\ ~Contains(Strip(v_url.s), s_sep) => ~IsSchemeRejection(r)

\* " example.com" became https://example.com
C23_Witness ==
    /\ v_done
    /\ v_url = PyStr(<<" ">> \o u_bare)
    /\ v_result = Some(Valid(u_example))

\* "ftp://example.com" was left as it is and rejected for its scheme
C23_WitnessUnchanged ==
    /\ v_done /\ v_format_ok
    /\ v_url = PyStr(<<"f","t","p",":","/","/","e","x","a","m","p","l","e",".","c","o","m">>)
    /\ v_result = Some(Invalid(m_blocked_scheme \o s_ftp))

s_private_ip == <<"p","r","i","v","a","t","e"," ","I","P">>

\* the host is an IPv4 literal in a private or link-local range
PrivateV4Host(h) ==
    /\ ip_address(h) # None
    /\ ip_address(h)[1].version = 4
    /\ is_private(ip_address(h)[1]) \/ is_link_local(ip_address(h)[1])

\* an http(s) URL that passed the format check and has such a host
PrivateV4Url ==
    /\ v_done /\ v_is_str /\ Truthy(v_url)
    /\ v_format_ok
    /\ v_parsed.error = None
    /\ Lower(v_parsed.scheme) \in {s_http, s_https}
    /\ v_hostname # None
    /\ PrivateV4Host(Lower(v_hostname[1]))

\* C24: a URL whose host is a private or link-local IPv4 literal (10.0.0.1,
\* 172.16.0.1, 192.168.1.1, 169.254.1.1) is invalid with a message that
\* contains "private IP".
C24_PrivateIPMessage ==
    PrivateV4Url =>
        /\ ~v_result[1].is_valid
        /\ Contains(v_result[1].error_message[1], s_private_ip)

\* what validate answers (line 107)
C24_PrivateIPRejected ==
    PrivateV4Url => v_result = Some(Invalid(m_private_ip))

\* http://10.0.0.1 was rejected with the message of line 107
C24_PrivateIPAnswer ==
    /\ PrivateV4Url
    /\ v_hostname = Some(<<"1","0",".","0",".","0",".","1">>)
    /\ v_result = Some(Invalid(m_private_ip))
    /\ ~Contains(m_private_ip, s_private_ip)

\* an earlier check of validate rejects the call
FailsBeforeLength ==
    \/ ~v_format_ok
    \/ v_parsed.error # None
    \/ Lower(v_parsed.scheme) \notin {s_http, s_https}
    \/ HostCheck(v_hostname) # None

\* C25: a URL whose normalized form is longer than 2048 characters is never
\* valid and one of 2048 characters is not rejected for its length; the length
\* check is the last one: a too long URL that fails the format, scheme or host
\* check gets that check's message, any other "URL is too long (max 2048
\* characters)".
C25_LengthLast ==
    (v_done /\ v_is_str /\ Truthy(v_url)) =>
        LET r == v_result[1]
            n == Len(Normalized(v_url.s))
        IN  /\ n > MaxUrlLength => ~r.is_valid
            /\ r = Invalid(m_too_long) => n > MaxUrlLength
            /\ (n > MaxUrlLength /\ ~FailsBeforeLength) => r = Invalid(m_too_long)
            /\ (n <= MaxUrlLength /\ ~FailsBeforeLength) => r.is_valid
            /\ FailsBeforeLength =>
                /\ ~r.is_valid
                /\ r # Invalid(m_too_long)
                /\ ~v_format_ok => r = Invalid(m_format)

\* a URL of 2041 characters without scheme is too long once normalized
C25_Witness ==
    /\ v_done
    /\ Len(v_url.s) = MaxUrlLength - Len(s_https_pfx) + 1
    /\ Len(v_normalized) = MaxUrlLength + 1
    /\ v_result = Some(Invalid(m_too_long))

\* a URL of exactly 2048 characters is valid
C25_WitnessAtLimit ==
    /\ v_done
    /\ Len(v_normalized) = MaxUrlLength
    /\ v_result[1].is_valid

\* a too long URL with a blocked scheme is rejected for its scheme
C25_WitnessEarlier ==
    /\ v_done
    /\ Len(v_normalized) > MaxUrlLength
    /\ v_result = Some(Invalid(m_blocked_scheme \o s_ftp))

(***************************************************************************)
(* Properties of the configuration                                         *)
(***************************************************************************)
Constructed == tool_pc = "idle"

\* C26: after a Config is constructed 1 <= default_timeout <= max_timeout,
\* whatever integers the defaults and the environment supply for the two.
C26_DefaultWithinBounds ==
    Constructed =>
        /\ 1 <= config.default_timeout
        /\ config.default_timeout <= config.max_timeout

\* what __post_init__ guarantees: default_timeout is at least 1, and at most
\* max_timeout when max_timeout is at least 1
C26_DefaultClamped ==
    Constructed =>
        /\ 1 <= config.default_timeout
        /\ config.max_timeout >= 1 => config.default_timeout <= config.max_timeout

\* MCP_MAX_TIMEOUT=0 gave default_timeout 1 above max_timeout 0
C26_DefaultAboveMax ==
    /\ Constructed
    /\ environ = Environ(None, Some(<<"0">>))
    /\ config = [default_timeout |-> 1, max_timeout |-> 0]

(***************************************************************************)
(* Properties of the body: size, decoding, extraction                      *)
(***************************************************************************)
s_content_too_large == <<"C","o","n","t","e","n","t"," ","t","o","o"," ","l","a","r","g","e">>

\* the response of call p has status 200 and a supported content type
Accepted200(p) ==
    /\ ctx[p].status = 200
    /\ is_supported_content_type(ContentTypeOf(ctx[p].header))

\* the Content-Length it declares is above max_content_length
DeclaredTooLarge(p) ==
    IF ctx[p].content_length = None THEN FALSE
    ELSE ctx[p].content_length[1] > MaxContentLength

\* C27: a response with status 200 and a supported content type whose
\* Content-Length header declares more than max_content_length is rejected with
\* a message that contains "Content too large", whatever body is delivered.
C27_DeclaredTooLarge ==
    \A p \in Calls :
        (Returned(p) /\ Accepted200(p) /\ DeclaredTooLarge(p)) =>
            /\ ~ResultOf(p).success
            /\ Contains(ResultOf(p).error_message[1], s_content_too_large)

\* what the code guarantees (lines 142-151): the message is given when, and
\* only when, the bytes that were delivered exceed max_content_length
C27_DeliveredTooLarge ==
    \A p \in Calls :
        (Returned(p) /\ GotResponse(p)) =>
            (Len(ctx[p].content_bytes) > MaxContentLength
                <=> ResultOf(p).error_message = Some(TooLargeMessage))

\* such a response broke off below the limit and was answered as a read error
C27_DeclaredButReadError ==
    /\ Returned(1) /\ Accepted200(1) /\ DeclaredTooLarge(1)
    /\ Len(ctx[1].content_bytes) <= MaxContentLength
    /\ ResultOf(1) = Failure(m_read_error \o d_payload, ctx[1].url)

\* the body of call p was read to its end and handed to the decoder
BodyRead(p) ==
    /\ Returned(p) /\ GotResponse(p)
    /\ ctx[p].raised = None
    /\ StatusError(ctx[p].status) = None
    /\ is_supported_content_type(ContentTypeOf(ctx[p].header))
    /\ Len(ctx[p].content_bytes) <= MaxContentLength

\* the codec the body is decoded with: the declared charset, or utf-8
CodecOf(header) ==
    IF CharsetOf(header) = None \/ CharsetOf(header) = Some(<<>>)
    THEN <<"u","t","f","-","8">>
    ELSE CharsetOf(header)[1]
HasInvalidByte(bytes) == \E i \in DOMAIN bytes : bytes[i] = InvalidByte
IsDecodeFailure(r) ==
    /\ ~r.success
    /\ StartsWith(r.error_message[1], m_decode)

\* C28: invalid bytes in a body never fail the request: decoding with the
\* declared charset or utf-8 substitutes them; the request fails at decoding
\* only when decoding itself raises, and then with "Failed to decode content:
\* <detail>", the status code and the content type.
C28_LossyDecoding ==
    \A p \in Calls :
        BodyRead(p) =>
            LET c == ctx[p]
                r == ResultOf(p)
                codec == Lower(CodecOf(c.header))
                known == codec \in Utf8Names \cup Latin1Names
            IN  /\ known => ~IsDecodeFailure(r)
                /\ (codec \in Utf8Names /\ r.success /\ Contains(ContentTypeOf(c.header), t_plain)) =>
                    r.text_content =
                        Some(Strip([i \in DOMAIN c.content_bytes |->
                                       IF c.content_bytes[i] = InvalidByte
                                       THEN ReplacementChar ELSE c.content_bytes[i]]))
                /\ ~known =>
                    r = ContentFailure(m_decode \o e_unknown_encoding \o CodecOf(c.header),
                                       ContentTypeOf(c.header), c.status, c.url)

\* a body with an invalid byte was decoded and came back as text
C28_Witness ==
    /\ BodyRead(1)
    /\ HasInvalidByte(ctx[1].content_bytes)
    /\ ResultOf(1).success
    /\ ResultOf(1).text_content = Some(<<"a", ReplacementChar>>)

\* a charset Python does not know made decode raise
C28_WitnessRaises ==
    /\ BodyRead(1)
    /\ ctx[1].header = Some(h_plain_bogus)
    /\ IsDecodeFailure(ResultOf(1))
    /\ ResultOf(1).status_code = Some(200)
    /\ ResultOf(1).content_type # None

\* the body of call p was read and decoded
BodyDecoded(p) ==
    /\ BodyRead(p)
    /\ Decode(ctx[p].content_bytes, CharsetOf(ctx[p].header)).error = None
ContentOf(p) == Decode(ctx[p].content_bytes, CharsetOf(ctx[p].header)).content
IsPlain(p) == Contains(ContentTypeOf(ctx[p].header), t_plain)

\* C29: for a content type that indicates plain text the extraction gives the
\* content with the surrounding whitespace trimmed and no title, and asks no
\* HTML strategy; content that is empty after trimming counts as no text.
C29_PlainTextTrimmed ==
    \A p \in Calls :
        (BodyDecoded(p) /\ IsPlain(p)) =>
            LET c == ctx[p]
                r == ResultOf(p)
                trimmed == Strip(ContentOf(p))
            IN  /\ c.html = None
                /\ c.extracted = Some(<<Some(trimmed), None>>)
                /\ IF trimmed = <<>>
                   THEN r = ContentFailure(m_no_text, ContentTypeOf(c.header), c.status, c.url)
                   ELSE /\ r.success
                        /\ r.text_content = Some(trimmed)
                        /\ r.title = None

\* the plain text " a" came back as "a"
C29_Witness ==
    /\ BodyDecoded(1) /\ IsPlain(1)
    /\ ctx[1].content_bytes = <<" ", "a">>
    /\ ResultOf(1).success
    /\ ResultOf(1).text_content = Some(<<"a">>)
    /\ ResultOf(1).title = None

\* a plain text of blanks is no text
C29_WitnessBlank ==
    /\ BodyDecoded(1) /\ IsPlain(1)
    /\ ctx[1].content_bytes = <<" ", " ">>
    /\ ResultOf(1).error_message = Some(m_no_text)

\* what the two strategies give for the document h: the heuristic result when
\* it is longer than 50 characters after trimming, else the structural result
\* when it is not empty, else nothing
HeuristicText(h) ==
    IF h.trafilatura = None THEN <<>> ELSE Strip(h.trafilatura[1])
StructuralText(h) ==
    IF h.soup_raises \/ h.main_text = None THEN <<>>
    ELSE Strip(CleanLines(h.main_text[1]))
FirstSufficient(h) ==
    IF Len(HeuristicText(h)) > MinHeuristicLength THEN Some(HeuristicText(h))
    ELSE IF StructuralText(h) # <<>> THEN Some(StructuralText(h))
    ELSE None

C30_WitnessHeuristic ==
    /\ BodyDecoded(1) /\ ~IsPlain(1)
    /\ ctx[1].html # None
    /\ ctx[1].html[1].trafilatura = Some(x_above_threshold)
    /\ ResultOf(1).success
    /\ ResultOf(1).text_content = Some(Strip(x_above_threshold))

\* neither strategy gave text
C30_WitnessNone ==
    /\ BodyDecoded(1) /\ ~IsPlain(1)
    /\ ctx[1].html # None
    /\ ~ctx[1].html[1].trafilatura_raises
    /\ ResultOf(1).error_message = Some(m_no_text)

\* the <title> text of the document h, trimmed, as a reader of the document
\* finds it: None when the document has no <title>
TrimmedTitle(h) == IF h.title_text = None THEN None ELSE Some(Strip(h.title_text[1]))
HasTitle(h) == h.title_text # None /\ ~h.soup_raises /\ ~h.trafilatura_raises

C31_WitnessHeuristic ==
    /\ BodyDecoded(1) /\ ~IsPlain(1) /\ ctx[1].html # None
    /\ HasTitle(ctx[1].html[1])
    /\ HeuristicSufficient(ctx[1].html[1].trafilatura)
    /\ ResultOf(1).title = Some(Strip(x_title))

\* neither gave any text, and extraction still returned the title
C31_WitnessNoText ==
    /\ BodyDecoded(1) /\ ~IsPlain(1) /\ ctx[1].html # None
    /\ HasTitle(ctx[1].html[1])
    /\ ctx[1].extracted = Some(<<None, Some(Strip(x_title))>>)
    /\ ResultOf(1).error_message = Some(m_no_text)

\* a library raised inside _extract_text_content for the document h
ExtractionRaised(h) == h.soup_raises \/ h.trafilatura_raises

\* C32: an exception raised inside text extraction (by the title parser, the
\* heuristic extractor or the structural parser) is never propagated:
\* extraction reports no text, and the enclosing extract call returns
\* success=false with "No readable text content found".
C32_ExceptionMeansNoText ==
    \A p \in Calls :
        (BodyDecoded(p) /\ ~IsPlain(p) /\ ctx[p].html # None) =>
            LET c == ctx[p]
            IN  ExtractionRaised(c.html[1]) =>
                    /\ c.raised = None
                    /\ c.extracted[1][1] = None
                    /\ ResultOf(p) = ContentFailure(m_no_text, ContentTypeOf(c.header),
                                                    c.status, c.url)

\* what the code guarantees (lines 236-285): no exception leaves extraction,
\* and extraction reports no text when the heuristic extractor raises or when
\* the parser raises and the heuristic result is not sufficient; an exception of
\* the title parser alone (lines 240-246) costs the title only
C32_ExceptionCaught ==
    \A p \in Calls :
        (BodyDecoded(p) /\ ~IsPlain(p) /\ ctx[p].html # None) =>
            LET c == ctx[p]
                h == c.html[1]
            IN  ExtractionRaised(h) =>
                    /\ c.raised = None
                    /\ pc[p] = "done"
                    /\ c.extracted[1][2] = None
                    /\ (h.trafilatura_raises \/ ~HeuristicSufficient(h.trafilatura)) =>
                        /\ c.extracted[1] = <<None, None>>
                        /\ ResultOf(p) = ContentFailure(m_no_text, ContentTypeOf(c.header),
                                                        c.status, c.url)

\* the title parser raised and the call succeeded with the heuristic text
C32_TitleParserRaisedSuccess ==
    /\ BodyDecoded(1) /\ ~IsPlain(1) /\ ctx[1].html # None
    /\ ctx[1].html[1].soup_raises
    /\ ResultOf(1).success
    /\ ResultOf(1).text_content = Some(x_long)
    /\ ResultOf(1).title = None

(***************************************************************************)
(* The edge of the rate-limit window                                       *)
(***************************************************************************)
\* the timestamps of times whose age at time t is at most the window
NotOlder(times, t) == SelectSeq(times, LAMBDA req_time : t - req_time <= RateLimitWindow)

\* C33: a rate-limit check drops a recorded timestamp if and only if it is
\* older than the window, its age being strictly greater than
\* rate_limit_window; a timestamp whose age is exactly rate_limit_window is
\* retained and still counts toward the limit.
C33_DropsOnlyOlder ==
    [][\A p \in Calls :
        StartsCall(p) =>
            /\ request_times' = NotOlder(request_times, now)
            /\ IsAdmitted(p) <=> Len(NotOlder(request_times, now)) < RateLimitRequests]_vars

\* what the code does (line 298): a check keeps exactly the timestamps whose
\* age is strictly less than rate_limit_window, and counts those
C33_KeepsOnlyYounger ==
    [][\A p \in Calls :
        StartsCall(p) =>
            /\ request_times' = SelectSeq(request_times,
                   LAMBDA req_time : now - req_time < RateLimitWindow)
            /\ \A i \in DOMAIN request_times :
                   now - request_times[i] = RateLimitWindow =>
                       Len(request_times') <= Len(request_times) - 1
            /\ IsAdmitted(p) <=> Len(request_times') < RateLimitRequests]_vars

\* a check at the moment a timestamp is exactly one window old dropped it:
\* call 2, recorded inside the last window, still awaits its response and the
\* check of call 1 left no timestamp
C33_ExactAgeDropped ==
    /\ now = RateLimitWindow
    /\ pc[2] = "await_response"
    /\ pc[1] = "admitted"
    /\ request_times = <<>>

\* C34: every failure result that extract returns after the response status
\* line has been received (status failure, unsupported content type, oversize,
\* decode failure, error while reading the body, no readable text) carries the
\* status code of the response.
C34_FailureCarriesStatus ==
    \A p \in Calls :
        (Returned(p) /\ GotResponse(p) /\ ~ResultOf(p).success) =>
            ResultOf(p).status_code = Some(ctx[p].status)

\* what the code guarantees: the status code is carried by every such failure
\* but the one of lines 165-170, returned when the body read raises, which has
\* neither status code nor content type
C34_FailureCarriesStatusUnlessReadError ==
    \A p \in Calls :
        (Returned(p) /\ GotResponse(p) /\ ~ResultOf(p).success) =>
            IF ctx[p].raised = None
            THEN ResultOf(p).status_code = Some(ctx[p].status)
            ELSE /\ ResultOf(p) = HandleReadException(ctx[p].raised[1], ctx[p].url)
                 /\ ResultOf(p).status_code = None
                 /\ ResultOf(p).content_type = None

\* a 200 response whose body read broke off was answered without status code
C34_ReadErrorNoStatus ==
    /\ Returned(1) /\ GotResponse(1)
    /\ ctx[1].status = 200
    /\ ctx[1].raised = Some(Exc("ClientPayloadError", d_payload))
    /\ ResultOf(1).error_message = Some(m_read_error \o d_payload)
    /\ ResultOf(1).status_code = None

(***************************************************************************)
(* close interleaved with extract_text and with close                      *)
(***************************************************************************)
\* the sessions constructed so far, and those of them no close() was called on
Sessions == 1..sessions_created
IsOpen(s) == s \in Sessions /\ s \notin closed
\* a session the extractor still refers to
Reachable(s) == session = Some(s)

\* C35: under any interleaving of close calls and extract calls on one
\* extractor, close clears the session reference of the extractor only for a
\* session that has been closed: no session that is still open ever becomes
\* unreachable, so once every call has finished and a last close has run every
\* session that was ever created is closed.
C35_NoOpenSessionLost ==
    \A s \in Sessions : IsOpen(s) => Reachable(s)

\* what the code guarantees: an open session is dropped only by the finally
\* clause of a close (lines 337-339): one whose session.close() raised, or one
\* that called session.close() on an earlier session and slept while another
\* close returned and a call created the new session; no step of extract_text
\* drops a session
C35_LostOnlyByClose ==
    [][\A s \in Sessions :
        (IsOpen(s) /\ Reachable(s) /\ session' # Some(s)) =>
            /\ session' = None
            /\ \E k \in Closers :
                \/ close_pc[k] = "idle" /\ close_pc'[k] = "done"
                \/ /\ close_pc[k] = "closing" /\ close_pc'[k] = "done"
                   /\ \E t \in closed : t < s]_vars

\* both calls of close have returned, the call is over, and session 2, created
\* between the two returns, was never closed and is referred to by nothing
C35_OpenSessionLost ==
    /\ \A k \in Closers : close_pc[k] = "done"
    /\ Returned(1)
    /\ sessions_created = 2
    /\ closed = {1}
    /\ session = None
    /\ ~session_created

\* C36: an extract call never issues its HTTP request on a session that close
\* has already closed: a call that starts while a close is in progress either
\* uses a session that is still open or creates a fresh one.
C36_NoRequestOnClosedSession ==
    [][\A p \in Calls :
        PassesEnsure(p) =>
            /\ ctx'[p].used # None
            /\ ctx'[p].used[1] \notin closed]_vars

\* what the code guarantees: _ensure_session creates a session only when the
\* reference is None (line 41), which a close in progress leaves set until its
\* finally clause; a request on the closed session raises "Session is closed"
\* before any network I/O and the call returns that as an unexpected error
C36_ClosedSessionFails ==
    [][\A p \in Calls :
        PassesEnsure(p) =>
            /\ ctx'[p].created <=> session = None
            /\ ctx'[p].used = session'
            /\ IF session'[1] \in closed
               THEN /\ ~ctx'[p].created
                    /\ \E k \in Closers : close_pc[k] = "closing"
                    /\ pc'[p] = "done"
                    /\ ctx'[p].result =
                           Some(Failure(m_unexpected \o d_closed, ctx[p].url))
               ELSE pc'[p] = "await_response"]_vars

\* a call that came while close slept used the closed session and failed
C36_RequestOnClosed ==
    /\ Returned(1)
    /\ ctx[1].used = Some(1) /\ ~ctx[1].created
    /\ 1 \in closed
    /\ session = Some(1)
    /\ \E k \in Closers : close_pc[k] = "closing"
    /\ ResultOf(1) = Failure(m_unexpected \o d_closed, ctx[1].url)

(***************************************************************************)
(* validate applied to its own output                                      *)
(***************************************************************************)
\* the call of validate has accepted its input
v_valid == v_done /\ v_result[1].is_valid
\* validate applied to the normalized URL the call returned; validators.url
\* is asked about the same string as in the first call and answers the same
ValidateAgain == validate(PyStr(v_result[1].normalized_url[1]), v_format_ok)

\* C37: validate is idempotent on its own output: for every input for which
\* validate returns is_valid = true with normalized_url n, validate(n) returns
\* is_valid = true with normalized_url equal to n as well.
C37_Idempotent ==
    v_valid =>
        /\ ValidateAgain.is_valid
        /\ ValidateAgain.normalized_url = v_result[1].normalized_url
        /\ ValidateAgain = v_result[1]

\* an input that normalization changed (blanks stripped, scheme added) was
\* accepted, and its normalized URL is accepted unchanged
C37_Witness ==
    /\ v_valid
    /\ v_url.s = <<" ">> \o u_bare
    /\ v_result[1].normalized_url = Some(s_https_pfx \o u_bare)
    /\ ValidateAgain = Valid(s_https_pfx \o u_bare)

\* the same for a URL of exactly 2048 characters after normalization
C37_WitnessAtLimit ==
    /\ v_valid
    /\ Len(v_url.s) < MaxUrlLength
    /\ Len(v_result[1].normalized_url[1]) = MaxUrlLength
    /\ ValidateAgain.is_valid

(***************************************************************************)
(* Termination of extract_text                                             *)
(***************************************************************************)
\* a server that answers, fails, stalls, or sends body chunks of any content
\* for as long as it is read
LiveEnv ==
    [urls |-> {u_example},
     timeouts |-> {10},
     statuses |-> {200, 404},
     headers |-> {Some(h_html), Some(h_plain), Some(h_json)},
     content_lengths |-> {None},
     chunks |-> SeqsUpTo({"a", " "}, MaxChunk),
     htmls |-> {Html(FALSE, Some(x_title), FALSE, Some(x_long), Some(x_lines)),
                Html(FALSE, None, TRUE, None, None)},
     request_errors |-> {Exc("TimeoutError", <<>>), Exc("ClientConnectorError", d_refused)},
     session_errors |-> {Exc("TypeError", d_operand)},
     read_errors |-> {Exc("TimeoutError", <<>>)}]

\* SpecLive: one caller, call after call, on the event loop.  Whenever the
\* call waits, something it waits for comes: the response head, a chunk, the
\* end of the body, or the timeout of the request (lines 49 and 93), which
\* fires when nothing else does.  Which of them comes is not constrained: the
\* server may send chunks for as long as the call reads.
LiveNext == Step(1, LiveEnv) \/ Tick
SpecLive == Init /\ [][LiveNext]_vars /\ WF_vars(Step(1, LiveEnv))

\* call p is under way
InCall(p) == pc[p] \in {"admitted", "recorded", "await_response", "reading"}

\* C38: every extract call eventually returns a result, provided the timeout
\* of the request fires when the server stalls: a server that keeps sending
\* body chunks forever cannot keep a call running, because the read is cut off
\* once the accumulated size exceeds max_content_length.
C38_EveryCallReturns ==
    \A p \in {1} : InCall(p) ~> (Returned(p) /\ ctx[p].result # None)

\* while a call reads, its buffer holds at most max_content_length bytes: every
\* chunk (iter_any yields no empty chunk) brings the call nearer to the abort
C38_ReadBounded ==
    \A p \in Calls : pc[p] = "reading" => Len(ctx[p].content_bytes) <= MaxContentLength

\* a server sent chunk after chunk and the call returned the size failure
C38_Witness ==
    /\ Returned(1)
    /\ Len(ctx[1].content_bytes) > MaxContentLength
    /\ ResultOf(1).error_message = Some(TooLargeMessage)

\* a server stalled during the body and the call returned on the timeout
C38_WitnessStalled ==
    /\ Returned(1)
    /\ ctx[1].status = 200
    /\ ctx[1].content_bytes # <<>>
    /\ ctx[1].raised = Some(Exc("TimeoutError", <<>>))

====
